---------------------------- MODULE Spec2Model ----------------------------
(***************************************************************************)
(* Model of the mailbox-to-document converters of email-llm:               *)
(*   src/mbox_converter_social_filter.py  (the filtering variant)          *)
(*   src/mbox_converter.py                (the base variant)               *)
(* Text is a sequence of one-character strings.  "xFF" stands for a byte   *)
(* that is not valid UTF-8, "uFFFD" for the replacement character and      *)
(* "u00FF" for the Latin-1 reading of that byte.                           *)
(***************************************************************************)
EXTENDS Integers, Sequences, FiniteSets, TLC

VARIABLES
    filtering,              \* TRUE: mbox_converter_social_filter.py, FALSE: mbox_converter.py
    archive_kind,           \* what mbox_file_path names: "file", "missing", "directory"
    archive,                \* the messages of the mbox file, in order
    pc,                     \* position of process_mbox
    outcomes,               \* one entry per message whose loop body has run
    processed_count,
    skipped_no_body_count,
    skipped_social_count,
    error_count,
    skipped_count,          \* the base variant's single skip counter
    outdir,                 \* output directory: filename -> content
    log,                    \* open error and final statistics report
    fn,                     \* the function applied in the function-level specifications
    arg,                    \* its argument
    ret,                    \* its result
    history,                \* one entry per earlier run into the same output directory
    LOGGING_S3_BUCKET_NAME, \* the logging handler's environment variable, <<>> when unset
    s3_objects              \* the put_object calls that S3 has accepted

vars == <<filtering, archive_kind, archive, pc, outcomes, processed_count,
          skipped_no_body_count, skipped_social_count, error_count,
          skipped_count, outdir, log, fn, arg, ret, history,
                   LOGGING_S3_BUCKET_NAME, s3_objects>>

walker_vars == <<filtering, archive_kind, archive, pc, outcomes, processed_count,
                 skipped_no_body_count, skipped_social_count, error_count,
                 skipped_count, outdir, log, history,
                   LOGGING_S3_BUCKET_NAME, s3_objects>>

call_vars == <<fn, arg, ret>>

(***************************************************************************)
(* Bounds                                                                  *)
(***************************************************************************)
MaxMsgs == 3        \* messages in an archive
MaxParts == 3       \* parts of a generated multipart message
MaxHtmlLen == 4     \* characters of a generated HTML payload
MaxRuns == 2        \* runs of process_mbox on one archive and output directory

(***************************************************************************)
(* Text helpers (Python str operations)                                    *)
(***************************************************************************)
WS == {" ", "\n", "\t", "\r"}

UpperLetters == <<"A", "B", "C", "D", "E", "F", "G", "H", "I", "J", "K", "L", "M", "N", "O", "P", "Q", "R", "S", "T", "U", "V", "W", "X", "Y", "Z">>

LowerLetters == <<"a", "b", "c", "d", "e", "f", "g", "h", "i", "j", "k", "l", "m", "n", "o", "p", "q", "r", "s", "t", "u", "v", "w", "x", "y", "z">>

\* str.lower() on one character
LowerChar(c) ==
    IF \E k \in 1..26 : UpperLetters[k] = c
    THEN LowerLetters[CHOOSE k \in 1..26 : UpperLetters[k] = c]
    ELSE c

\* str.lower()
Lower(s) == [k \in 1..Len(s) |-> LowerChar(s[k])]

Min(S) == CHOOSE x \in S : \A y \in S : x <= y

Max(S) == CHOOSE x \in S : \A y \in S : x >= y

\* s[p:p+len(lit)] == lit
StartsAt(s, p, lit) ==
    /\ p >= 1
    /\ p + Len(lit) - 1 <= Len(s)
    /\ \A k \in 1..Len(lit) : s[p + k - 1] = lit[k]

\* the same under re.IGNORECASE; lit is lower-case
StartsAtNoCase(s, p, lit) ==
    /\ p >= 1
    /\ p + Len(lit) - 1 <= Len(s)
    /\ \A k \in 1..Len(lit) : LowerChar(s[p + k - 1]) = lit[k]

\* sub in s
Contains(s, sub) == \E p \in 1..(Len(s) + 1) : StartsAt(s, p, sub)

\* str.strip()
Strip(s) ==
    LET keep == {k \in 1..Len(s) : s[k] \notin WS}
    IN  IF keep = {} THEN <<>> ELSE SubSeq(s, Min(keep), Max(keep))

\* s[:n]
Prefix(s, n) == SubSeq(s, 1, IF Len(s) < n THEN Len(s) ELSE n)

\* least index >= from whose character is c, 0 when there is none
FirstChar(s, from, c) ==
    LET S == {k \in from..Len(s) : s[k] = c}
    IN  IF S = {} THEN 0 ELSE Min(S)

\* r'<name(?:\s[^>]*)?>.*?</name>' with re.DOTALL | re.IGNORECASE
BlockMatch(name, s, p) ==
    LET open == <<"<">> \o name
        close == <<"<", "/">> \o name \o <<">">>
        q == p + Len(open)
        r == IF q > Len(s) THEN 0
             ELSE IF s[q] = ">" THEN q
             ELSE IF s[q] \in WS THEN FirstChar(s, q + 1, ">")
             ELSE 0
        C == {c \in (r + 1)..Len(s) : StartsAtNoCase(s, c, close)}
    IN  IF StartsAtNoCase(s, p, open) /\ r > 0 /\ C # {}
        THEN Min(C) + Len(close)
        ELSE 0

StyleBlock(s, p) == BlockMatch(<<"s", "t", "y", "l", "e">>, s, p)

ScriptBlock(s, p) == BlockMatch(<<"s", "c", "r", "i", "p", "t">>, s, p)

HeadBlock(s, p) == BlockMatch(<<"h", "e", "a", "d">>, s, p)

\* r'<[^>]+>'
AnyTag(s, p) ==
    LET q == FirstChar(s, p + 1, ">")
    IN  IF p <= Len(s) /\ s[p] = "<" /\ q > p + 1 THEN q + 1 ELSE 0

\* r'\s+'
WhitespaceRun(s, p) ==
    IF s[p] \in WS
    THEN LET S == {k \in p..Len(s) : \A j \in p..k : s[j] \in WS}
         IN  Max(S) + 1
    ELSE 0

\* '<style[^<]+?</style>' with re.DOTALL | re.IGNORECASE (base variant)
BaseStyleBlock(s, p) ==
    LET open == <<"<", "s", "t", "y", "l", "e">>
        close == <<"<", "/", "s", "t", "y", "l", "e", ">">>
        q == p + Len(open)
        c == FirstChar(s, q, "<")
    IN  IF StartsAtNoCase(s, p, open) /\ c > q /\ StartsAtNoCase(s, c, close)
        THEN c + Len(close)
        ELSE 0

\* '<[^<]+?>' (base variant)
BaseAnyTag(s, p) ==
    LET S == {q \in (p + 2)..Len(s) :
                 s[q] = ">" /\ \A k \in (p + 1)..(q - 1) : s[k] # "<"}
    IN  IF s[p] = "<" /\ S # {} THEN Min(S) + 1 ELSE 0

\* Match(pattern, s, p) is the index just past the match of the named
\* pattern that starts at p, or 0 when it does not match there
Match(pattern, s, p) ==
    CASE pattern = "style" -> StyleBlock(s, p)
      [] pattern = "script" -> ScriptBlock(s, p)
      [] pattern = "head" -> HeadBlock(s, p)
      [] pattern = "tag" -> AnyTag(s, p)
      [] pattern = "space" -> WhitespaceRun(s, p)
      [] pattern = "base_style" -> BaseStyleBlock(s, p)
      [] pattern = "base_tag" -> BaseAnyTag(s, p)

\* re.sub: scan left to right, replace each leftmost match, resume after it
RECURSIVE ReSub(_, _, _, _)
ReSub(pattern, repl, s, p) ==
    IF p > Len(s) THEN <<>>
    ELSE LET e == Match(pattern, s, p)
         IN  IF e > 0 THEN repl \o ReSub(pattern, repl, s, e)
             ELSE <<s[p]>> \o ReSub(pattern, repl, s, p + 1)

\* src/mbox_converter_social_filter.py lines 104-108
HtmlToText(html) ==
    LET t1 == ReSub("style", <<>>, html, 1)
        t2 == ReSub("script", <<>>, t1, 1)
        t3 == ReSub("head", <<>>, t2, 1)
        t4 == ReSub("tag", <<" ">>, t3, 1)
    IN  Strip(ReSub("space", <<" ">>, t4, 1))

\* src/mbox_converter.py lines 44-46 and 57-59
BaseHtmlToText(html) ==
    LET t1 == ReSub("base_style", <<>>, html, 1)
        t2 == ReSub("base_tag", <<" ">>, t1, 1)
    IN  Strip(ReSub("space", <<" ">>, t2, 1))

(***************************************************************************)
(* Messages.  A part is a record                                           *)
(*   multi    is_multipart()                                               *)
(*   ctype    get_content_type()                                           *)
(*   disp     the Content-Disposition header: [present, raw]               *)
(*   charset  get_content_charset(): "" when the parameter is absent       *)
(*   payload  get_payload(decode=True): [present, bytes]                   *)
(*   parts    the sub-parts of a multipart part                            *)
(***************************************************************************)
NoHeader == [present |-> FALSE, raw |-> <<>>]

Header(raw) == [present |-> TRUE, raw |-> raw]

NoPayload == [present |-> FALSE, bytes |-> <<>>]

Payload(bytes) == [present |-> TRUE, bytes |-> bytes]

Leaf(ctype, disp, charset, payload) ==
    [multi |-> FALSE, ctype |-> ctype, disp |-> disp, charset |-> charset,
     payload |-> payload, parts |-> <<>>]

Multi(ctype, parts) ==
    [multi |-> TRUE, ctype |-> ctype, disp |-> NoHeader, charset |-> "",
     payload |-> NoPayload, parts |-> parts]

\* Header values on which email.policy.default's header parser raises
\* (CPython 3.11 email/_header_value_parser.py), with the exception text.
HeaderParseErrors ==
    { <<<<".", "-", " ", "<", "\"", "<", "\\", ";">>, <<"'", "s", "t", "r", "'", " ", "o", "b", "j", "e", "c", "t", " ", "h", "a", "s", " ", "n", "o", " ", "a", "t", "t", "r", "i", "b", "u", "t", "e", " ", "'", "t", "o", "k", "e", "n", "_", "t", "y", "p", "e", "'">>>>,
      <<<<"b", "@">>, <<"s", "t", "r", "i", "n", "g", " ", "i", "n", "d", "e", "x", " ", "o", "u", "t", " ", "o", "f", " ", "r", "a", "n", "g", "e">>>>,
      <<<<";", "2", "*">>, <<"s", "t", "r", "i", "n", "g", " ", "i", "n", "d", "e", "x", " ", "o", "u", "t", " ", "o", "f", " ", "r", "a", "n", "g", "e">>>>,
      <<<<"=", ";", "-", "*">>, <<"s", "t", "r", "i", "n", "g", " ", "i", "n", "d", "e", "x", " ", "o", "u", "t", " ", "o", "f", " ", "r", "a", "n", "g", "e">>>> }

\* msg.get(name): the parsed header, or the exception the parser raises
HeaderRaises(h) == h.present /\ \E e \in HeaderParseErrors : e[1] = h.raw

HeaderError(h) == (CHOOSE e \in HeaderParseErrors : e[1] = h.raw)[2]

\* Message.walk(): the part itself, then its sub-parts depth first
RECURSIVE Walk(_)
RECURSIVE WalkAll(_, _)
Walk(part) == <<part>> \o (IF part.multi THEN WalkAll(part.parts, 1) ELSE <<>>)
WalkAll(parts, k) ==
    IF k > Len(parts) THEN <<>> ELSE Walk(parts[k]) \o WalkAll(parts, k + 1)

KnownCharsets == {"utf-8", "latin-1"}

\* bytes.decode(charset, errors='replace') on one byte
DecodeByte(b, charset) ==
    IF b = "xFF" THEN (IF charset = "latin-1" THEN "u00FF" ELSE "uFFFD") ELSE b

\* payload = part.get_payload(decode=True)
\* charset = part.get_content_charset() or 'utf-8'
\* payload.decode(charset, errors='replace')
\* ok = FALSE when this raises (payload is None, or the codec is unknown)
DecodePart(part) ==
    LET charset == IF part.charset = "" THEN "utf-8" ELSE part.charset
    IN  IF ~part.payload.present \/ charset \notin KnownCharsets
        THEN [ok |-> FALSE, text |-> <<>>]
        ELSE [ok |-> TRUE,
              text |-> [k \in 1..Len(part.payload.bytes) |->
                           DecodeByte(part.payload.bytes[k], charset)]]

\* str(part.get("Content-Disposition"))
ContentDisposition(part) ==
    IF part.disp.present THEN part.disp.raw ELSE <<"N", "o", "n", "e">>

Returned(body) == [raised |-> FALSE, body |-> body]

Raised == [raised |-> TRUE, body |-> <<>>]

(***************************************************************************)
(* get_email_body, filtering variant                                       *)
(***************************************************************************)
\* one iteration of "for part in msg.walk()", lines 65-86
WalkStep(part, st) ==
    IF HeaderRaises(part.disp)
    THEN [st EXCEPT !.raised = TRUE, !.done = TRUE]
    ELSE IF Contains(ContentDisposition(part), <<"a", "t", "t", "a", "c", "h", "m", "e", "n", "t">>)
    THEN st
    ELSE IF part.ctype = "text/plain"
    THEN LET d == DecodePart(part)
         IN  IF d.ok THEN [st EXCEPT !.preferred_body = d.text, !.done = TRUE]
             ELSE st
    ELSE IF part.ctype = "text/html"
    THEN LET d == DecodePart(part)
         IN  IF d.ok THEN [st EXCEPT !.html_body_content = d.text] ELSE st
    ELSE st

RECURSIVE WalkLoop(_, _, _)
WalkLoop(parts, k, st) ==
    IF k > Len(parts) \/ st.done THEN st
    ELSE WalkLoop(parts, k + 1, WalkStep(parts[k], st))

\* the "else" branch of a message that is not multipart, lines 88-97
SinglePart(msg, st) ==
    LET d == DecodePart(msg)
    IN  IF ~d.ok THEN st
        ELSE IF msg.ctype = "text/plain" THEN [st EXCEPT !.preferred_body = d.text]
        ELSE IF msg.ctype = "text/html" THEN [st EXCEPT !.html_body_content = d.text]
        ELSE st

get_email_body(msg) ==
    LET st0 == [preferred_body |-> <<>>, html_body_content |-> <<>>,
                done |-> FALSE, raised |-> FALSE]
        st == IF msg.multi THEN WalkLoop(Walk(msg), 1, st0) ELSE SinglePart(msg, st0)
        body == IF st.preferred_body # <<>> THEN st.preferred_body
                ELSE IF st.html_body_content # <<>> THEN HtmlToText(st.html_body_content)
                ELSE <<>>
    IN  IF st.raised THEN Raised ELSE Returned(Strip(body))

(***************************************************************************)
(* get_email_body, base variant                                            *)
(***************************************************************************)
\* one iteration of "for part in msg.walk()", lines 25-50
BaseWalkStep(part, st) ==
    IF HeaderRaises(part.disp)
    THEN [st EXCEPT !.raised = TRUE, !.done = TRUE]
    ELSE IF Contains(ContentDisposition(part), <<"a", "t", "t", "a", "c", "h", "m", "e", "n", "t">>)
    THEN st
    ELSE IF part.ctype = "text/plain"
    THEN LET d == DecodePart(part)
         IN  IF d.ok THEN [st EXCEPT !.body = d.text, !.done = TRUE] ELSE st
    ELSE IF part.ctype = "text/html" /\ st.body = <<>>
    THEN LET d == DecodePart(part)
         IN  IF d.ok THEN [st EXCEPT !.body = BaseHtmlToText(d.text)] ELSE st
    ELSE st

RECURSIVE BaseWalkLoop(_, _, _)
BaseWalkLoop(parts, k, st) ==
    IF k > Len(parts) \/ st.done THEN st
    ELSE BaseWalkLoop(parts, k + 1, BaseWalkStep(parts[k], st))

\* the "else" branch of a message that is not multipart, lines 52-62
BaseSinglePart(msg, st) ==
    LET d == DecodePart(msg)
    IN  IF ~d.ok THEN st
        ELSE IF msg.ctype = "text/html" /\ Contains(Lower(d.text), <<"<", "b", "o", "d", "y">>)
        THEN [st EXCEPT !.body = BaseHtmlToText(d.text)]
        ELSE [st EXCEPT !.body = d.text]

base_get_email_body(msg) ==
    LET st0 == [body |-> <<>>, done |-> FALSE, raised |-> FALSE]
        st == IF msg.multi THEN BaseWalkLoop(Walk(msg), 1, st0)
              ELSE BaseSinglePart(msg, st0)
    IN  IF st.raised THEN Raised ELSE Returned(Strip(st.body))

(***************************************************************************)
(* Sender classifier (filtering variant)                                   *)
(***************************************************************************)
SOCIAL_MEDIA_KEYWORDS ==
    << <<"f", "a", "c", "e", "b", "o", "o", "k", ".", "c", "o", "m">>,
       <<"f", "a", "c", "e", "b", "o", "o", "k", "m", "a", "i", "l", ".", "c", "o", "m">>,
       <<"f", "b", ".", "c", "o", "m">>,
       <<"f", "a", "c", "e", "b", "o", "o", "k">>,
       <<"i", "n", "s", "t", "a", "g", "r", "a", "m", ".", "c", "o", "m">>,
       <<"i", "n", "s", "t", "a", "g", "r", "a", "m">>,
       <<"l", "i", "n", "k", "e", "d", "i", "n", ".", "c", "o", "m">>,
       <<"l", "i", "n", "k", "e", "d", "i", "n">>,
       <<"l", "i", "n", "k", "e", "d", "i", "n", "m", "a", "i", "l", ".", "c", "o", "m">>,
       <<"j", "o", "b", "a", "l", "e", "r", "t", "s", "-", "n", "o", "r", "e", "p", "l", "y", "@", "l", "i", "n", "k", "e", "d", "i", "n", ".", "c", "o", "m">>,
       <<"L", "i", "n", "k", "e", "d", "I", "n", " ", "J", "o", "b", " ", "A", "l", "e", "r", "t", "s">>,
       <<"t", "w", "i", "t", "t", "e", "r", ".", "c", "o", "m">>,
       <<"x", ".", "c", "o", "m">>,
       <<"t", "w", "i", "t", "t", "e", "r">>,
       <<"p", "i", "n", "t", "e", "r", "e", "s", "t", ".", "c", "o", "m">>,
       <<"p", "i", "n", "t", "e", "r", "e", "s", "t">>,
       <<"t", "i", "k", "t", "o", "k", ".", "c", "o", "m">>,
       <<"t", "i", "k", "t", "o", "k">>,
       <<"s", "n", "a", "p", "c", "h", "a", "t", ".", "c", "o", "m">>,
       <<"s", "n", "a", "p", "c", "h", "a", "t">>,
       <<"r", "e", "d", "d", "i", "t", ".", "c", "o", "m">>,
       <<"r", "e", "d", "d", "i", "t", "m", "a", "i", "l", ".", "c", "o", "m">>,
       <<"r", "e", "d", "d", "i", "t">>,
       <<"y", "o", "u", "t", "u", "b", "e", ".", "c", "o", "m">>,
       <<"y", "o", "u", "t", "u", "b", "e">>,
       <<"q", "u", "o", "r", "a", ".", "c", "o", "m">>,
       <<"q", "u", "o", "r", "a">>,
       <<"n", "e", "x", "t", "d", "o", "o", "r", ".", "c", "o", "m">>,
       <<"n", "e", "x", "t", "d", "o", "o", "r">>,
       <<"f", "l", "i", "p", "k", "a", "r", "t">>,
       <<"a", "m", "a", "z", "o", "n", " ", "I", "n", "d", "i", "a">>,
       <<"a", "m", "a", "z", "o", "n", ".", "c", "o", "m">>,
       <<"a", "m", "a", "z", "o", "n">>,
       <<"m", "y", "n", "t", "r", "a">>,
       <<"m", "y", "n", "t", "r", "a", ".", "c", "o", "m">>,
       <<"m", "y", "n", "t", "r", "a">>,
       <<"g", "m", "a", "i", "l">>,
       <<"g", "o", "o", "g", "l", "e">>,
       <<"g", "o", "o", "g", "l", "e", " ", "P", "l", "a", "y">>,
       <<"g", "o", "o", "g", "l", "e", " ", "p", "h", "o", "t", "o", "s">>,
       <<"g", "o", "o", "g", "l", "e", " ", "d", "r", "i", "v", "e">>,
       <<"b", "a", "d", "o", "o", ".", "c", "o", "m">>,
       <<"b", "a", "d", "o", "o">>,
       <<"i", "n", "t", "e", "r", "n", "s", "h", "a", "l", "a">>,
       <<"t", "o", "p", "m", "a", "t", "e", ".", "i", "o">>,
       <<"i", "n", "t", "e", "r", "n", "s", "h", "a", "l", "a", ".", "c", "o", "m">>,
       <<"t", "a", "t", "a">>,
       <<"j", "o", "b", "s", "c", "a", "n">>,
       <<"a", "l", "e", "r", "t", "s">>,
       <<"m", "o", "n", "s", "t", "e", "r", "i", "n", "d", "i", "a", ".", "c", "o", "m">>,
       <<"f", "o", "u", "n", "d", "i", "t">>,
       <<"o", "r", "a", "c", "l", "e", ".", "c", "o", "m">>,
       <<"c", "a", "r", "e", "e", "r", "s">>,
       <<"n", "o", "-", "r", "e", "p", "l", "y">>,
       <<"j", "o", "b">>,
       <<"j", "o", "b", "s">>,
       <<"i", "n", "d", "i", "a">>,
       <<"n", "o", "r", "e", "p", "l", "y">>,
       <<"p", "a", "r", "t", "i", "c", "i", "p", "a", "t", "e">>,
       <<"c", "u", "v", "e", "t", "t", "e">>,
       <<"c", "u", "v", "e", "t", "t", "e", ".", "t", "e", "c", "h">>,
       <<"m", "y", "w", "o", "r", "k", "d", "a", "y", "j", "o", "b", "s">>,
       <<"m", "y", "w", "o", "r", "k", "d", "a", "y">>,
       <<"m", "y", "w", "o", "r", "k", "d", "a", "y", ".", "c", "o", "m">>,
       <<"i", "n", "d", "e", "e", "d", ".", "c", "o", "m">>,
       <<"i", "n", "d", "e", "e", "d">>,
       <<"i", "n", "d", "e", "e", "d", ".", "c", "o", ".", "i", "n">>,
       <<"i", "n", "d", "e", "e", "d", ".", "c", "o", ".", "u", "k">>,
       <<"i", "n", "d", "e", "e", "d", ".", "c", "o", ".", "j", "p">>,
       <<"t", "a", "x">>,
       <<"c", "r", "y", "p", "t", "o">>,
       <<"b", "i", "n", "a", "n", "c", "e">>,
       <<"d", "o", "_", "n", "o", "t", "_", "r", "e", "p", "l", "y">>,
       <<"c", "o", "n", "t", "e", "s", "t", "s">>,
       <<"m", "e", "r", "c", "e", "r">>,
       <<"h", "a", "s", "u", "r", "a">>,
       <<"j", "o", "b", "n", "o", "t", "i", "f", "i", "c", "a", "t", "i", "o", "n">>,
       <<"c", "r", "e", "d", "i", "t">>,
       <<"C", "r", "e", "d", "i", "t", "M", "a", "n", "t", "r", "i">>,
       <<"c", "r", "e", "d", "i", "t", "m", "a", "n", "t", "r", "i", ".", "c", "o", "m">>,
       <<"c", "r", "e", "d", "i", "t", "m", "a", "n", "t", "r", "i">>,
       <<"z", "o", "m", "a", "t", "o", ".", "c", "o", "m">>,
       <<"z", "o", "m", "a", "t", "o">>,
       <<"s", "w", "i", "g", "g", "y", ".", "c", "o", "m">>,
       <<"s", "w", "i", "g", "g", "y">>,
       <<"u", "n", "a", "c", "a", "d", "e", "m", "y", ".", "c", "o", "m">>,
       <<"u", "n", "a", "c", "a", "d", "e", "m", "y">>,
       <<"c", "e", "s", "c">>,
       <<"j", "i", "o", ".", "c", "o", "m">>,
       <<"j", "i", "o">>,
       <<"p", "a", "y", "t", "m", ".", "c", "o", "m">>,
       <<"p", "a", "y", "t", "m">>,
       <<"g", "r", "a", "m", "m", "a", "r", "l", "y", ".", "c", "o", "m">>,
       <<"g", "r", "a", "m", "m", "a", "r", "l", "y">>,
       <<"i", "r", "c", "t", "c", ".", "c", "o", ".", "i", "n">>,
       <<"i", "r", "c", "t", "c">>,
       <<"i", "r", "c", "t", "c", ".", "c", "o", ".", "i", "n">>,
       <<"s", "n", "a", "p", "d", "e", "a", "l", ".", "c", "o", "m">>,
       <<"s", "n", "a", "p", "d", "e", "a", "l">>,
       <<"s", "n", "a", "p", "d", "e", "a", "l", ".", "c", "o", "m">>,
       <<"s", "n", "a", "p", "d", "e", "a", "l">>,
       <<"t", "o", "o", "r", "n", "a", "m", "e", "n", "t">>,
       <<"u", "d", "e", "m", "y", ".", "c", "o", "m">>,
       <<"u", "d", "e", "m", "y">>,
       <<"c", "o", "u", "r", "s", "e", "r", "a", ".", "o", "r", "g">>,
       <<"c", "o", "u", "r", "s", "e", "r", "a">>,
       <<"c", "o", "u", "r", "s", "e", "r", "a", ".", "c", "o", "m">>,
       <<"c", "o", "u", "r", "s", "e", "r", "a">>,
       <<"s", "k", "i", "l", "l", "s", "h", "a", "r", "e", ".", "c", "o", "m">>,
       <<"s", "k", "i", "l", "l", "s", "h", "a", "r", "e">>,
       <<"e", "d", "x", ".", "o", "r", "g">>,
       <<"e", "d", "x">>,
       <<"e", "d", "x", ".", "c", "o", "m">>,
       <<"e", "d", "x">>,
       <<"g", "i", "f", "t", "i", "n", "g">>,
       <<"g", "i", "f", "t">>,
       <<"g", "i", "f", "t", "c", "a", "r", "d", "s">>,
       <<"s", "k", "i", "l", "l", "s", "h", "a", "r", "e", ".", "c", "o", "m">>,
       <<"s", "k", "i", "l", "l", "s", "h", "a", "r", "e">> >>

SOCIAL_MEDIA_KEYWORDS_LOWER ==
    [k \in 1..Len(SOCIAL_MEDIA_KEYWORDS) |-> Lower(SOCIAL_MEDIA_KEYWORDS[k])]

\* the pieces of s between occurrences of c
RECURSIVE Split(_, _)
Split(s, c) ==
    LET q == FirstChar(s, 1, c)
    IN  IF q = 0 THEN <<s>>
        ELSE <<SubSeq(s, 1, q - 1)>> \o Split(SubSeq(s, q + 1, Len(s)), c)

\* the words of s, separated by runs of whitespace
RECURSIVE Words(_)
Words(s) ==
    LET t == Strip(s)
        S == {k \in 1..Len(t) : t[k] \in WS}
    IN  IF t = <<>> THEN <<>>
        ELSE IF S = {} THEN <<t>>
        ELSE <<SubSeq(t, 1, Min(S) - 1)>> \o Words(SubSeq(t, Min(S), Len(t)))

\* ' '.join(words)
RECURSIVE JoinWords(_)
JoinWords(ws) ==
    IF ws = <<>> THEN <<>>
    ELSE IF Len(ws) = 1 THEN ws[1]
    ELSE ws[1] \o <<" ">> \o JoinWords(Tail(ws))

\* One mailbox of an address list, as email.utils.getaddresses reads it:
\* 'phrase <addr-spec>' gives (phrase, addr-spec); an addr-spec alone, or a
\* phrase alone, gives ('', first word).
ParseMailbox(seg) ==
    LET t == Strip(seg)
        lt == FirstChar(t, 1, "<")
        gt == FirstChar(t, lt + 1, ">")
        w == Words(t)
    IN  IF lt > 0
        THEN [realname |-> JoinWords(Words(SubSeq(t, 1, lt - 1))),
              email_address |-> SubSeq(t, lt + 1, (IF gt = 0 THEN Len(t) ELSE gt - 1))]
        ELSE [realname |-> <<>>,
              email_address |-> IF w = <<>> THEN <<>> ELSE w[1]]

\* email.utils.getaddresses([header]) on comma-separated mailboxes
getaddresses(header) ==
    LET segs == Split(header, ",")
    IN  IF header = <<>> THEN <<>>
        ELSE [k \in 1..Len(segs) |-> ParseMailbox(segs[k])]

\* CheckStrings with the display name left out
CheckStrings_AddressOnly(mailbox) ==
    IF mailbox.email_address # <<>> THEN <<mailbox.email_address>> ELSE <<>>

\* the strings of one mailbox that are tested, lines 134-136
CheckStrings(mailbox) ==
    (IF mailbox.email_address # <<>> THEN <<mailbox.email_address>> ELSE <<>>)
    \o (IF mailbox.realname # <<>> THEN <<mailbox.realname>> ELSE <<>>)

\* is_social_media_email failing closed on an empty header
is_social_media_email_FailClosed(msg_from_header_full) ==
    IF msg_from_header_full = <<>> THEN TRUE
    ELSE LET mailboxes == getaddresses(Lower(msg_from_header_full))
         IN  \E m \in 1..Len(mailboxes) :
                 \E c \in 1..Len(CheckStrings(mailboxes[m])) :
                     \E k \in 1..Len(SOCIAL_MEDIA_KEYWORDS_LOWER) :
                         Contains(CheckStrings(mailboxes[m])[c], SOCIAL_MEDIA_KEYWORDS_LOWER[k])

is_social_media_email(msg_from_header_full) ==
    IF msg_from_header_full = <<>> THEN FALSE
    ELSE LET from_header_lower == Lower(msg_from_header_full)
             mailboxes == getaddresses(from_header_lower)
         IN  \E m \in 1..Len(mailboxes) :
                 LET check_strings == CheckStrings(mailboxes[m])
                 IN  \E c \in 1..Len(check_strings) :
                         \E k \in 1..Len(SOCIAL_MEDIA_KEYWORDS_LOWER) :
                             Contains(check_strings[c], SOCIAL_MEDIA_KEYWORDS_LOWER[k])

(***************************************************************************)
(* Headers, file names and documents                                       *)
(***************************************************************************)
\* msg.get(name, default)
Get(msg, name, default) ==
    IF name \in DOMAIN msg.headers THEN msg.headers[name] ELSE default

\* the header as the policy's parser receives it
RawHeader(msg, name) ==
    IF name \in DOMAIN msg.headers THEN Header(msg.headers[name]) ELSE NoHeader

\* Date headers email.utils.parsedate_to_datetime accepts, with the two
\* strftime renderings the converters use; any other value raises
KnownDates ==
    { [raw |-> <<"W", "e", "d", ",", " ", "0", "1", " ", "J", "a", "n", " ", "2", "0", "2", "0", " ", "1", "0", ":", "0", "0", ":", "0", "0", " ", "+", "0", "0", "0", "0">>,
       prefix |-> <<"2", "0", "2", "0", "0", "1", "0", "1", "_", "1", "0", "0", "0", "0", "0">>,
       display |-> <<"2", "0", "2", "0", "-", "0", "1", "-", "0", "1", " ", "1", "0", ":", "0", "0", ":", "0", "0", " ", "U", "T", "C">>],
      [raw |-> <<"T", "h", "u", ",", " ", "0", "2", " ", "J", "a", "n", " ", "2", "0", "2", "0", " ", "0", "8", ":", "3", "0", ":", "0", "0", " ", "+", "0", "0", "0", "0">>,
       prefix |-> <<"2", "0", "2", "0", "0", "1", "0", "2", "_", "0", "8", "3", "0", "0", "0">>,
       display |-> <<"2", "0", "2", "0", "-", "0", "1", "-", "0", "2", " ", "0", "8", ":", "3", "0", ":", "0", "0", " ", "U", "T", "C">>] }

\* email_date is not None
DateParses(date_str) == \E d \in KnownDates : d.raw = date_str

parsedate_to_datetime(date_str) == CHOOSE d \in KnownDates : d.raw = date_str

\* email_date.strftime("%Y%m%d_%H%M%S") if email_date else "NODATE"
DatePrefix(date_str) ==
    IF DateParses(date_str) THEN parsedate_to_datetime(date_str).prefix
    ELSE <<"N", "O", "D", "A", "T", "E">>

\* email_date.strftime('%Y-%m-%d %H:%M:%S %Z') if email_date else "Unknown"
DateDisplay(date_str) ==
    IF DateParses(date_str) THEN parsedate_to_datetime(date_str).display
    ELSE <<"U", "n", "k", "n", "o", "w", "n">>

\* UnsafeChars with the path separators only
UnsafeChars_SeparatorsOnly == {"\\", "/"}

\* re.sub(r'[\\/*?:"<>|]', "_", s) followed by the two replace() calls
UnsafeChars == {"\\", "/", "*", "?", ":", "\"", "<", ">", "|", "\n", "\r"}

clean_filename_component(component_str, max_len) ==
    IF component_str = <<>> THEN <<"u", "n", "k", "n", "o", "w", "n">>
    ELSE LET cleaned == [k \in 1..Len(component_str) |->
                            IF component_str[k] \in UnsafeChars THEN "_"
                            ELSE component_str[k]]
         IN  Strip(Prefix(cleaned, max_len))

\* str.strip("<>")
StripAngle(s) ==
    LET keep == {k \in 1..Len(s) : s[k] \notin {"<", ">"}}
    IN  IF keep = {} THEN <<>> ELSE SubSeq(s, Min(keep), Max(keep))

\* str.replace("@", "_at_")
RECURSIVE ReplaceAt(_)
ReplaceAt(s) ==
    IF s = <<>> THEN <<>>
    ELSE (IF Head(s) = "@" THEN <<"_", "a", "t", "_">> ELSE <<Head(s)>>) \o ReplaceAt(Tail(s))

\* character codes for the digest below
CodeTable ==
    <<" ", "!", "\"", "#", "$", "%", "&", "'", "(", ")", "*", "+", ",", "-", ".", "/", "0", "1", "2", "3", "4", "5", "6", "7", "8", "9", ":", ";", "<", "=", ">", "?", "@", "A", "B", "C", "D", "E", "F", "G", "H", "I", "J", "K", "L", "M", "N", "O", "P", "Q", "R", "S", "T", "U", "V", "W", "X", "Y", "Z", "[", "\\", "]", "^", "_", "a", "b", "c", "d", "e", "f", "g", "h", "i", "j", "k", "l", "m", "n", "o", "p", "q", "r", "s", "t", "u", "v", "w", "x", "y", "z", "{", "|", "}", "~">>

Code(c) ==
    IF \E k \in 1..Len(CodeTable) : CodeTable[k] = c
    THEN 31 + (CHOOSE k \in 1..Len(CodeTable) : CodeTable[k] = c)
    ELSE 1

HexDigits == <<"0", "1", "2", "3", "4", "5", "6", "7", "8", "9", "a", "b", "c", "d", "e", "f">>

RECURSIVE Digest(_, _)
Digest(s, h) ==
    IF s = <<>> THEN h ELSE Digest(Tail(s), (h * 31 + Code(Head(s))) % 4096)

\* hashlib.md5(text.encode('utf-8', errors='replace')).hexdigest()[:12]:
\* a deterministic digest of 12 hexadecimal digits with a finite range (a
\* polynomial digest stands for MD5, so distinct texts can collide)
Md5Hex12(text) ==
    LET h == Digest(text, 7)
    IN  <<"0", "0", "0", "0", "0", "0", "0", "0", "0">> \o <<HexDigits[(h \div 256) + 1],
                             HexDigits[((h \div 16) % 16) + 1],
                             HexDigits[(h % 16) + 1]>>

(***************************************************************************)
(* str(msg.get("Message-ID", "")): policy.default hands the header to the   *)
(* msg-id parser of the email package (CPython 3.11).  What it returns was *)
(* compared with the parser on every string of up to 7 characters over     *)
(* "<", ">", "@", ".", ":" and atext characters; comments, quoted strings, *)
(* domain literals and white space are not modelled.                       *)
(***************************************************************************)
\* ATOM_ENDS of the parser: the RFC 5322 specials and white space
AtomEnds == {"(", ")", "<", ">", "@", ",", ":", ";", ".", "\\", "\"", "[", "]", " ", "\t"}

\* index just past the run of atext characters that starts at p
AtextEnd(v, p) ==
    LET S == {k \in p..Len(v) : v[k] \in AtomEnds}
    IN  IF S = {} THEN Len(v) + 1 ELSE Min(S)

\* get_dot_atom_text: index just past atext *("." atext) at p, 0 when the
\* parser raises HeaderParseError (no atext at p, or a dot not followed by one)
RECURSIVE DotAtomEnd(_, _)
DotAtomEnd(v, p) ==
    LET e == AtextEnd(v, p)
    IN  IF e = p THEN 0
        ELSE IF e <= Len(v) /\ v[e] = "." THEN DotAtomEnd(v, e + 1)
        ELSE e

\* get_obs_local_part on atoms and dots: index just past the run at p
ObsLocalPartEnd(v, p) ==
    LET S == {k \in p..Len(v) : v[k] \in AtomEnds \ {"."}}
    IN  IF S = {} THEN Len(v) + 1 ELSE Min(S)

MsgIdValue(value) == [raised |-> FALSE, value |-> value]

\* IndexError inside the parser
MsgIdRaises == [raised |-> TRUE, value |-> <<>>]

\* parse_message_id followed by str(): a value that does not start with "<"
\* or whose id-right is no dot-atom is kept as it is; otherwise the text
\* after the msg-id is dropped and a missing ">" after id-right is added
parse_message_id(raw) ==
    IF raw = <<>> \/ raw[1] # "<" THEN MsgIdValue(raw)
    ELSE IF Len(raw) = 1 \/ raw[2] \in AtomEnds \ {"."} THEN MsgIdRaises
    ELSE LET d == DotAtomEnd(raw, 2)
             l == IF d # 0 THEN d ELSE ObsLocalPartEnd(raw, 2)
         IN  IF l > Len(raw) \/ raw[l] # "@"
             THEN MsgIdValue(SubSeq(raw, 1, l - 1)
                             \o (IF l <= Len(raw) /\ raw[l] = ">" THEN <<">">> ELSE <<>>))
             ELSE IF l = Len(raw) THEN MsgIdRaises
             ELSE LET r == DotAtomEnd(raw, l + 1)
                  IN  IF r = 0 THEN MsgIdValue(raw)
                      ELSE MsgIdValue(SubSeq(raw, 1, r - 1) \o <<">">>)

\* unique_id_part, filtering variant line 218, base variant lines 139-147
UniqueIdPart(message_id, subject, body) ==
    IF message_id # <<>>
    THEN clean_filename_component(ReplaceAt(StripAngle(message_id)), 70)
    ELSE Md5Hex12(subject \o Prefix(body, 200))

\* filename = f"{date_prefix}_{subject_part}_{unique_id_part}.txt"
Filename(msg, body) ==
    LET subject == Get(msg, "Subject", <<"N", "o", " ", "S", "u", "b", "j", "e", "c", "t">>)
    IN  DatePrefix(Get(msg, "Date", <<>>)) \o <<"_">>
        \o clean_filename_component(subject, 40) \o <<"_">>
        \o UniqueIdPart(parse_message_id(Get(msg, "Message-ID", <<>>)).value, subject, body)
        \o <<".", "t", "x", "t">>

\* final_content of the filtering variant, lines 203-213
FinalContent(msg, body) ==
    LET cc_display == Get(msg, "Cc", <<>>)
    IN  <<"E", "m", "a", "i", "l", " ", "D", "a", "t", "e", ":", " ">> \o DateDisplay(Get(msg, "Date", <<>>)) \o <<"\n">>
        \o <<"F", "r", "o", "m", ":", " ">> \o Get(msg, "From", <<"U", "n", "k", "n", "o", "w", "n", " ", "S", "e", "n", "d", "e", "r">>) \o <<"\n">>
        \o <<"T", "o", ":", " ">> \o Get(msg, "To", <<"U", "n", "k", "n", "o", "w", "n", " ", "R", "e", "c", "i", "p", "i", "e", "n", "t">>) \o <<"\n">>
        \o (IF cc_display # <<>> THEN <<"C", "c", ":", " ">> \o cc_display \o <<"\n">> ELSE <<>>)
        \o <<"S", "u", "b", "j", "e", "c", "t", ":", " ">> \o Get(msg, "Subject", <<"N", "o", " ", "S", "u", "b", "j", "e", "c", "t">>)
        \o <<"\n", "\n", "-", "-", "-", " ", "E", "m", "a", "i", "l", " ", "C", "o", "n", "t", "e", "n", "t", " ", "-", "-", "-", "\n">> \o body

\* final_content of the base variant, lines 122-134
BaseFinalContent(msg, body) ==
    <<"E", "m", "a", "i", "l", " ", "D", "a", "t", "e", ":", " ">> \o DateDisplay(Get(msg, "Date", <<>>)) \o <<"\n">>
    \o <<"F", "r", "o", "m", ":", " ">> \o Get(msg, "From", <<"U", "n", "k", "n", "o", "w", "n", " ", "S", "e", "n", "d", "e", "r">>) \o <<"\n">>
    \o <<"T", "o", ":", " ">> \o Get(msg, "To", <<"U", "n", "k", "n", "o", "w", "n", " ", "R", "e", "c", "i", "p", "i", "e", "n", "t">>) \o <<"\n">>
    \o <<"S", "u", "b", "j", "e", "c", "t", ":", " ">> \o Get(msg, "Subject", <<"N", "o", " ", "S", "u", "b", "j", "e", "c", "t">>)
    \o <<"\n", "\n", "-", "-", "-", " ", "E", "m", "a", "i", "l", " ", "C", "o", "n", "t", "e", "n", "t", " ", "-", "-", "-", "\n">> \o body

(***************************************************************************)
(* process_mbox: the body of the loop for one message.  w is what the      *)
(* file system does to the write: "ok", "open_fails" (open() raises) or    *)
(* "write_fails" (open() has truncated the file, f.write() raises).        *)
(***************************************************************************)
WriteOutcomes == {"ok", "open_fails", "write_fails"}

NoFile == [written |-> FALSE, name |-> <<>>, content |-> <<>>]

File(name, content) == [written |-> TRUE, name |-> name, content |-> content]

Result(outcome, file, crash) == [outcome |-> outcome, file |-> file, crash |-> crash]

\* lines 224-232 (filtering) and 155-163 (base)
WriteFile(name, content, w) ==
    IF w = "ok" THEN Result("processed", File(name, content), FALSE)
    ELSE IF w = "write_fails" THEN Result("write_error", File(name, <<>>), FALSE)
    ELSE Result("write_error", NoFile, FALSE)

\* LoopBody with the body extracted and tested before the sender is classified
LoopBody_BodyFirst(msg, bound, w) ==
    IF HeaderRaises(RawHeader(msg, "From"))
    THEN Result("header_error", NoFile,
                Contains(HeaderError(RawHeader(msg, "From")), <<"t", "o", "k", "e", "n", "_", "t", "y", "p", "e">>) /\ ~bound)
    ELSE LET b == get_email_body(msg)
         IN  IF b.raised THEN Result("body_error", NoFile, FALSE)
             ELSE IF b.body = <<>> THEN Result("skipped_no_body", NoFile, FALSE)
             ELSE IF is_social_media_email(Get(msg, "From", <<"U", "n", "k", "n", "o", "w", "n", " ", "S", "e", "n", "d", "e", "r">>))
             THEN Result("skipped_social", NoFile, FALSE)
             ELSE IF parse_message_id(Get(msg, "Message-ID", <<>>)).raised
             THEN Result("header_error", NoFile, FALSE)
             ELSE WriteFile(Filename(msg, b.body), FinalContent(msg, b.body), w)

\* LoopBody without the test for an empty body
LoopBody_NoEmptyCheck(msg, bound, w) ==
    IF HeaderRaises(RawHeader(msg, "From"))
    THEN Result("header_error", NoFile,
                Contains(HeaderError(RawHeader(msg, "From")), <<"t", "o", "k", "e", "n", "_", "t", "y", "p", "e">>) /\ ~bound)
    ELSE IF is_social_media_email(Get(msg, "From", <<"U", "n", "k", "n", "o", "w", "n", " ", "S", "e", "n", "d", "e", "r">>))
    THEN Result("skipped_social", NoFile, FALSE)
    ELSE LET b == get_email_body(msg)
         IN  IF b.raised THEN Result("body_error", NoFile, FALSE)
             ELSE IF parse_message_id(Get(msg, "Message-ID", <<>>)).raised
             THEN Result("header_error", NoFile, FALSE)
             ELSE WriteFile(Filename(msg, b.body), FinalContent(msg, b.body), w)

\* filtering variant, lines 166-242.  bound: from_header_full was assigned
\* by an earlier iteration
LoopBody(msg, bound, w) ==
    IF HeaderRaises(RawHeader(msg, "From"))
    THEN Result("header_error", NoFile,
                Contains(HeaderError(RawHeader(msg, "From")), <<"t", "o", "k", "e", "n", "_", "t", "y", "p", "e">>) /\ ~bound)
    ELSE IF is_social_media_email(Get(msg, "From", <<"U", "n", "k", "n", "o", "w", "n", " ", "S", "e", "n", "d", "e", "r">>))
    THEN Result("skipped_social", NoFile, FALSE)
    ELSE LET b == get_email_body(msg)
         IN  IF b.raised THEN Result("body_error", NoFile, FALSE)
             ELSE IF b.body = <<>> THEN Result("skipped_no_body", NoFile, FALSE)
             ELSE IF parse_message_id(Get(msg, "Message-ID", <<>>)).raised
             THEN Result("header_error", NoFile, FALSE)
             ELSE WriteFile(Filename(msg, b.body), FinalContent(msg, b.body), w)

\* base variant, lines 93-167
BaseLoopBody(msg, w) ==
    IF \/ HeaderRaises(RawHeader(msg, "From"))
       \/ parse_message_id(Get(msg, "Message-ID", <<>>)).raised
    THEN Result("header_error", NoFile, FALSE)
    ELSE LET b == base_get_email_body(msg)
         IN  IF b.raised THEN Result("body_error", NoFile, FALSE)
             ELSE IF b.body = <<>> THEN Result("skipped_no_body", NoFile, FALSE)
             ELSE WriteFile(Filename(msg, b.body), BaseFinalContent(msg, b.body), w)

\* Store that keeps an existing file and writes under a new name beside it
Store_KeepsBoth(dir, file) ==
    IF file.written
    THEN LET name == IF file.name \in DOMAIN dir THEN file.name \o <<".", "1">> ELSE file.name
         IN  [f \in DOMAIN dir \cup {name} |-> IF f = name THEN file.content ELSE dir[f]]
    ELSE dir

\* the output directory after the write
Store(dir, file) ==
    IF file.written
    THEN [f \in DOMAIN dir \cup {file.name} |->
             IF f = file.name THEN file.content ELSE dir[f]]
    ELSE dir

\* mailbox.mbox parses the next message with BytesParser(policy.default);
\* the parser itself raises on these Content-Type headers
FetchRaises(msg) == HeaderRaises(RawHeader(msg, "Content-Type"))

(***************************************************************************)
(* The messages of the modelled archives                                   *)
(***************************************************************************)
Message(headers, part) ==
    [multi |-> part.multi, ctype |-> part.ctype, disp |-> part.disp,
     charset |-> part.charset, payload |-> part.payload, parts |-> part.parts,
     headers |-> headers]

PlainPart(text) == Leaf("text/plain", NoHeader, "", Payload(text))

HtmlPart(text) == Leaf("text/html", NoHeader, "", Payload(text))

PdfAttachment ==
    Leaf("application/pdf", Header(<<"a", "t", "t", "a", "c", "h", "m", "e", "n", "t", ";", " ", "f", "i", "l", "e", "n", "a", "m", "e", "=", "\"", "r", ".", "p", "d", "f", "\"">>), "",
         Payload(<<"%", "P", "D", "F">>))

Personal ==
    Message([From |-> <<"J", "a", "n", "e", " ", "D", "o", "e", " ", "<", "j", "a", "n", "e", "@", "e", "x", "a", "m", "p", "l", "e", ".", "c", "o", "m", ">">>, To |-> <<"m", "e", "@", "e", "x", "a", "m", "p", "l", "e", ".", "c", "o", "m">>,
             Subject |-> <<"L", "u", "n", "c", "h", "?">>, Date |-> <<"W", "e", "d", ",", " ", "0", "1", " ", "J", "a", "n", " ", "2", "0", "2", "0", " ", "1", "0", ":", "0", "0", ":", "0", "0", " ", "+", "0", "0", "0", "0">>]
            @@ ("Message-ID" :> <<"<", "m", "1", "@", "e", "x", "a", "m", "p", "l", "e", ".", "c", "o", "m", ">">>),
            PlainPart(<<"S", "e", "e", " ", "y", "o", "u", " ", "a", "t", " ", "n", "o", "o", "n", ".", "\n">>))

\* the copy of Personal that a mailing list delivered: same Date, Subject and
\* Message-ID, another recipient and a footer under the text
PersonalListCopy ==
    Message([From |-> <<"J", "a", "n", "e", " ", "D", "o", "e", " ", "<", "j", "a", "n", "e", "@", "e", "x", "a", "m", "p", "l", "e", ".", "c", "o", "m", ">">>, To |-> <<"l", "i", "s", "t", "@", "e", "x", "a", "m", "p", "l", "e", ".", "c", "o", "m">>,
             Subject |-> <<"L", "u", "n", "c", "h", "?">>, Date |-> <<"W", "e", "d", ",", " ", "0", "1", " ", "J", "a", "n", " ", "2", "0", "2", "0", " ", "1", "0", ":", "0", "0", ":", "0", "0", " ", "+", "0", "0", "0", "0">>]
            @@ ("Message-ID" :> <<"<", "m", "1", "@", "e", "x", "a", "m", "p", "l", "e", ".", "c", "o", "m", ">">>),
            PlainPart(<<"S", "e", "e", " ", "y", "o", "u", " ", "a", "t", " ", "n", "o", "o", "n", ".", "\n", "-", "-", " ", "\n", "l", "i", "s", "t">>))

Newsletter ==
    Message([From |-> <<"n", "o", "t", "i", "f", "i", "c", "a", "t", "i", "o", "n", "s", "@", "f", "a", "c", "e", "b", "o", "o", "k", "m", "a", "i", "l", ".", "c", "o", "m">>, To |-> <<"m", "e", "@", "e", "x", "a", "m", "p", "l", "e", ".", "c", "o", "m">>,
             Subject |-> <<"N", "e", "w", "s">>, Date |-> <<"T", "h", "u", ",", " ", "0", "2", " ", "J", "a", "n", " ", "2", "0", "2", "0", " ", "0", "8", ":", "3", "0", ":", "0", "0", " ", "+", "0", "0", "0", "0">>]
            @@ ("Message-ID" :> <<"<", "n", "1", "@", "f", "a", "c", "e", "b", "o", "o", "k", "m", "a", "i", "l", ".", "c", "o", "m", ">">>),
            HtmlPart(<<"<", "h", "t", "m", "l", ">", "<", "b", "o", "d", "y", ">", "<", "p", ">", "H", "o", "t", " ", " ", " ", "d", "e", "a", "l", "s", "<", "/", "p", ">", "<", "/", "b", "o", "d", "y", ">", "<", "/", "h", "t", "m", "l", ">">>))

AttachmentOnly ==
    Message([From |-> <<"B", "o", "b", " ", "<", "b", "o", "b", "@", "e", "x", "a", "m", "p", "l", "e", ".", "o", "r", "g", ">">>, To |-> <<"m", "e", "@", "e", "x", "a", "m", "p", "l", "e", ".", "c", "o", "m">>,
             Subject |-> <<"R", "e", "p", "o", "r", "t">>]
            @@ ("Message-ID" :> <<"<", "a", "1", "@", "e", "x", "a", "m", "p", "l", "e", ".", "o", "r", "g", ">">>),
            Multi("multipart/mixed", <<PdfAttachment>>))

NoFromMemo ==
    Message([To |-> <<"m", "e", "@", "e", "x", "a", "m", "p", "l", "e", ".", "c", "o", "m">>, Cc |-> <<"t", "e", "a", "m", "@", "e", "x", "a", "m", "p", "l", "e", ".", "c", "o", "m">>,
             Subject |-> <<"M", "e", "m", "o", ":", " ", "Q", "1", "/", "Q", "2">>, Date |-> <<"s", "o", "m", "e", "d", "a", "y">>],
            PlainPart(<<" ", "m", "e", "m", "o", " ">>))

EmptyFromBlank ==
    Message([From |-> <<>>, To |-> <<"m", "e", "@", "e", "x", "a", "m", "p", "l", "e", ".", "c", "o", "m">>, Subject |-> <<"B", "l", "a", "n", "k">>]
            @@ ("Message-ID" :> <<"<", "b", "1", "@", "e", "x", "a", "m", "p", "l", "e", ".", "c", "o", "m", ">">>),
            PlainPart(<<" ", "\n", "\t">>))

NoiseNoBody ==
    Message([From |-> <<"L", "i", "n", "k", "e", "d", "I", "n", " ", "J", "o", "b", " ", "A", "l", "e", "r", "t", "s", " ", "<", "j", "o", "b", "s", "@", "e", "x", "a", "m", "p", "l", "e", ".", "n", "e", "t", ">">>,
             Subject |-> <<"J", "o", "b", "s">>]
            @@ ("Message-ID" :> <<"<", "j", "1", "@", "e", "x", "a", "m", "p", "l", "e", ".", "n", "e", "t", ">">>),
            Multi("multipart/mixed", <<PdfAttachment>>))

BadFrom ==
    Message([From |-> <<".", "-", " ", "<", "\"", "<", "\\", ";">>, Subject |-> <<"O", "d", "d">>]
            @@ ("Message-ID" :> <<"<", "o", "1", "@", "e", "x", "a", "m", "p", "l", "e", ".", "c", "o", "m", ">">>),
            PlainPart(<<"b", "o", "d", "y">>))

\* reading this Message-ID raises IndexError
BadMessageId ==
    Message([From |-> <<"J", "a", "n", "e", " ", "D", "o", "e", " ", "<", "j", "a", "n", "e", "@", "e", "x", "a", "m", "p", "l", "e", ".", "c", "o", "m", ">">>, Subject |-> <<"I", "d">>]
            @@ ("Message-ID" :> <<"<", ">">>),
            PlainPart(<<"b", "o", "d", "y">>))

BadContentType ==
    Message([From |-> <<"J", "a", "n", "e", " ", "D", "o", "e", " ", "<", "j", "a", "n", "e", "@", "e", "x", "a", "m", "p", "l", "e", ".", "c", "o", "m", ">">>,
             Subject |-> <<"T", "y", "p", "e">>]
            @@ ("Content-Type" :> <<"=", ";", "-", "*">>) @@ ("Message-ID" :> <<"<", "t", "1", "@", "e", "x", "a", "m", "p", "l", "e", ".", "c", "o", "m", ">">>),
            PlainPart(<<"b", "o", "d", "y">>))

BadDisposition ==
    Message([From |-> <<"J", "a", "n", "e", " ", "D", "o", "e", " ", "<", "j", "a", "n", "e", "@", "e", "x", "a", "m", "p", "l", "e", ".", "c", "o", "m", ">">>, Subject |-> <<"D", "i", "s", "p">>]
            @@ ("Message-ID" :> <<"<", "d", "1", "@", "e", "x", "a", "m", "p", "l", "e", ".", "c", "o", "m", ">">>),
            Multi("multipart/mixed",
                  <<Leaf("text/plain", Header(<<";", "2", "*">>), "", Payload(<<"h", "e", "l", "l", "o">>))>>))

\* the messages an archive is made of, by name
Catalogue ==
    [Personal |-> Personal, PersonalListCopy |-> PersonalListCopy,
     Newsletter |-> Newsletter,
     AttachmentOnly |-> AttachmentOnly, NoFromMemo |-> NoFromMemo,
     EmptyFromBlank |-> EmptyFromBlank, NoiseNoBody |-> NoiseNoBody,
     BadFrom |-> BadFrom, BadMessageId |-> BadMessageId,
     BadContentType |-> BadContentType,
     BadDisposition |-> BadDisposition]

\* an archive is a sequence of catalogue names
Archives == UNION {[1..n -> DOMAIN Catalogue] : n \in 0..MaxMsgs}

\* the loop bodies, tabulated once per catalogue message
LoopBodyOf ==
    [n \in DOMAIN Catalogue |-> [bound \in BOOLEAN |-> [w \in WriteOutcomes |->
        LoopBody(Catalogue[n], bound, w)]]]

BaseLoopBodyOf ==
    [n \in DOMAIN Catalogue |-> [w \in WriteOutcomes |->
        BaseLoopBody(Catalogue[n], w)]]

FromRaisesOf ==
    [n \in DOMAIN Catalogue |-> HeaderRaises(RawHeader(Catalogue[n], "From"))]

FetchRaisesOf == [n \in DOMAIN Catalogue |-> FetchRaises(Catalogue[n])]

(***************************************************************************)
(* process_mbox as a state machine                                         *)
(***************************************************************************)
CallIdle == fn = "none" /\ arg = <<>> /\ ret = <<>>

Init ==
    /\ filtering \in BOOLEAN
    /\ \/ archive_kind = "file" /\ archive \in Archives
       \/ archive_kind \in {"missing", "directory"} /\ archive = <<>>
    /\ pc = "start"
    /\ outcomes = <<>>
    /\ processed_count = 0
    /\ skipped_no_body_count = 0
    /\ skipped_social_count = 0
    /\ error_count = 0
    /\ skipped_count = 0
    /\ outdir = <<>>
    /\ log = <<>>
    /\ history = <<>>
    /\ LOGGING_S3_BUCKET_NAME = <<>>
    /\ s3_objects = <<>>
    /\ CallIdle

\* mailbox.mbox(mbox_file_path, ...) raises: log the error and return
OpenFails ==
    /\ pc = "start"
    /\ archive_kind = "directory"
    /\ pc' = "aborted"
    /\ log' = Append(log, "open_error")
    /\ UNCHANGED <<filtering, archive_kind, archive, outcomes, processed_count,
                   skipped_no_body_count, skipped_social_count, error_count,
                   skipped_count, outdir, fn, arg, ret, history,
                   LOGGING_S3_BUCKET_NAME, s3_objects>>

\* mailbox.mbox(mbox_file_path, ...) succeeds; with its default create=True
\* it creates a missing file as an empty mailbox
OpenArchive ==
    /\ pc = "start"
    /\ archive_kind \in {"file", "missing"}
    /\ archive_kind' = "file"
    /\ pc' = "loop"
    /\ UNCHANGED <<filtering, archive, outcomes, processed_count,
                   skipped_no_body_count, skipped_social_count, error_count,
                   skipped_count, outdir, log, fn, arg, ret, history,
                   LOGGING_S3_BUCKET_NAME, s3_objects>>

NextMsg == archive[Len(outcomes) + 1]

\* from_header_full holds a value of an earlier iteration
FromBound == \E k \in 1..Len(outcomes) : ~FromRaisesOf[archive[k]]

\* "for i, msg in enumerate(mbox)" raises while it parses the next message:
\* the exception leaves process_mbox
IterateRaises ==
    /\ pc = "loop"
    /\ Len(outcomes) < Len(archive)
    /\ FetchRaisesOf[NextMsg]
    /\ pc' = "crashed"
    /\ UNCHANGED <<filtering, archive_kind, archive, outcomes, processed_count,
                   skipped_no_body_count, skipped_social_count, error_count,
                   skipped_count, outdir, log, fn, arg, ret, history,
                   LOGGING_S3_BUCKET_NAME, s3_objects>>

\* HandleMessage counting the message as processed before the write is attempted
HandleMessage_CountsBeforeWrite ==
    /\ pc = "loop"
    /\ filtering
    /\ Len(outcomes) < Len(archive)
    /\ ~FetchRaisesOf[NextMsg]
    /\ \E w \in WriteOutcomes :
        \E r \in {LoopBodyOf[NextMsg][FromBound][w]} :
            /\ outcomes' = Append(outcomes, r.outcome)
            /\ outdir' = Store(outdir, r.file)
            /\ processed_count' =
                   processed_count
                   + (IF r.outcome \in {"processed", "write_error"} THEN 1 ELSE 0)
            /\ skipped_social_count' =
                   skipped_social_count + (IF r.outcome = "skipped_social" THEN 1 ELSE 0)
            /\ skipped_no_body_count' =
                   skipped_no_body_count + (IF r.outcome = "skipped_no_body" THEN 1 ELSE 0)
            /\ error_count' =
                   error_count + (IF r.outcome \in {"write_error", "header_error", "body_error"}
                                  THEN 1 ELSE 0)
            /\ pc' = IF r.crash THEN "crashed" ELSE "loop"
    /\ UNCHANGED <<filtering, archive_kind, archive, skipped_count, log, fn, arg, ret, history,
                   LOGGING_S3_BUCKET_NAME, s3_objects>>

\* one iteration of the loop of the filtering variant
HandleMessage ==
    /\ pc = "loop"
    /\ filtering
    /\ Len(outcomes) < Len(archive)
    /\ ~FetchRaisesOf[NextMsg]
    /\ \E w \in WriteOutcomes :
        \E r \in {LoopBodyOf[NextMsg][FromBound][w]} :
            /\ outcomes' = Append(outcomes, r.outcome)
            /\ outdir' = Store(outdir, r.file)
            /\ processed_count' =
                   processed_count + (IF r.outcome = "processed" THEN 1 ELSE 0)
            /\ skipped_social_count' =
                   skipped_social_count + (IF r.outcome = "skipped_social" THEN 1 ELSE 0)
            /\ skipped_no_body_count' =
                   skipped_no_body_count + (IF r.outcome = "skipped_no_body" THEN 1 ELSE 0)
            /\ error_count' =
                   error_count + (IF r.outcome \in {"write_error", "header_error", "body_error"}
                                  THEN 1 ELSE 0)
            /\ pc' = IF r.crash THEN "crashed" ELSE "loop"
    /\ UNCHANGED <<filtering, archive_kind, archive, skipped_count, log, fn, arg, ret, history,
                   LOGGING_S3_BUCKET_NAME, s3_objects>>

\* BaseHandleMessage leaving both counters alone when the write fails
BaseHandleMessage_WriteErrorUncounted ==
    /\ pc = "loop"
    /\ ~filtering
    /\ Len(outcomes) < Len(archive)
    /\ ~FetchRaisesOf[NextMsg]
    /\ \E w \in WriteOutcomes :
        \E r \in {BaseLoopBodyOf[NextMsg][w]} :
            /\ outcomes' = Append(outcomes, r.outcome)
            /\ outdir' = Store(outdir, r.file)
            /\ processed_count' =
                   processed_count + (IF r.outcome = "processed" THEN 1 ELSE 0)
            /\ skipped_count' =
                   skipped_count + (IF r.outcome \notin {"processed", "write_error"} THEN 1 ELSE 0)
    /\ UNCHANGED <<filtering, archive_kind, archive, pc, skipped_no_body_count,
                   skipped_social_count, error_count, log, fn, arg, ret, history,
                   LOGGING_S3_BUCKET_NAME, s3_objects>>

\* one iteration of the loop of the base variant
BaseHandleMessage ==
    /\ pc = "loop"
    /\ ~filtering
    /\ Len(outcomes) < Len(archive)
    /\ ~FetchRaisesOf[NextMsg]
    /\ \E w \in WriteOutcomes :
        \E r \in {BaseLoopBodyOf[NextMsg][w]} :
            /\ outcomes' = Append(outcomes, r.outcome)
            /\ outdir' = Store(outdir, r.file)
            /\ processed_count' =
                   processed_count + (IF r.outcome = "processed" THEN 1 ELSE 0)
            /\ skipped_count' =
                   skipped_count + (IF r.outcome # "processed" THEN 1 ELSE 0)
    /\ UNCHANGED <<filtering, archive_kind, archive, pc, skipped_no_body_count,
                   skipped_social_count, error_count, log, fn, arg, ret, history,
                   LOGGING_S3_BUCKET_NAME, s3_objects>>

\* the loop is exhausted: log the final statistics
Complete ==
    /\ pc = "loop"
    /\ Len(outcomes) = Len(archive)
    /\ pc' = "done"
    /\ log' = Append(log, "complete")
    /\ UNCHANGED <<filtering, archive_kind, archive, outcomes, processed_count,
                   skipped_no_body_count, skipped_social_count, error_count,
                   skipped_count, outdir, fn, arg, ret, history,
                   LOGGING_S3_BUCKET_NAME, s3_objects>>

Next ==
    \/ OpenFails
    \/ OpenArchive
    \/ IterateRaises
    \/ HandleMessage
    \/ BaseHandleMessage
    \/ Complete

Spec == Init /\ [][Next]_vars

(***************************************************************************)
(* The same archive converted again into the same output directory        *)
(***************************************************************************)
\* process_mbox has returned or was left by an exception and is called again
\* with the same arguments: its locals start afresh, the directory is kept
Rerun ==
    /\ pc \in {"done", "crashed"}
    /\ Len(history) + 1 < MaxRuns
    /\ history' = Append(history,
                         [names |-> DOMAIN outdir,
                          clean |-> \A k \in 1..Len(outcomes) : outcomes[k] # "write_error"])
    /\ pc' = "start"
    /\ outcomes' = <<>>
    /\ processed_count' = 0
    /\ skipped_no_body_count' = 0
    /\ skipped_social_count' = 0
    /\ error_count' = 0
    /\ skipped_count' = 0
    /\ log' = <<>>
    /\ UNCHANGED <<filtering, archive_kind, archive, outdir, fn, arg, ret,
                   LOGGING_S3_BUCKET_NAME, s3_objects>>

NextRerun == Next \/ Rerun

SpecRerun == Init /\ [][NextRerun]_vars

(***************************************************************************)
(* get_email_body applied to generated messages                            *)
(***************************************************************************)
WalkerIdle ==
    /\ filtering = FALSE
    /\ archive_kind = "file"
    /\ archive = <<>>
    /\ pc = "idle"
    /\ outcomes = <<>>
    /\ processed_count = 0
    /\ skipped_no_body_count = 0
    /\ skipped_social_count = 0
    /\ error_count = 0
    /\ skipped_count = 0
    /\ outdir = <<>>
    /\ log = <<>>
    /\ history = <<>>
    /\ LOGGING_S3_BUCKET_NAME = <<>>
    /\ s3_objects = <<>>

\* the parts generated messages are built from
LeafParts ==
    { PlainPart(<<"h", "i">>),
      PlainPart(<<>>),
      PlainPart(<<" ", "a", " ", "\n">>),
      Leaf("text/plain", Header(<<"a", "t", "t", "a", "c", "h", "m", "e", "n", "t", ";", " ", "f", "i", "l", "e", "n", "a", "m", "e", "=", "\"", "n", ".", "t", "x", "t", "\"">>), "", Payload(<<"s", "e", "c", "r", "e", "t">>)),
      HtmlPart(<<"<", "p", ">", "x", "<", "/", "p", ">">>),
      HtmlPart(<<"<", "b", ">", "y", "<", "/", "b", ">", " ", "z">>),
      PdfAttachment,
      Leaf("text/plain", NoHeader, "bogus-x", Payload(<<"z", "z">>)),
      Leaf("text/plain", NoHeader, "", NoPayload),
      Leaf("text/plain", Header(<<";", "2", "*">>), "", Payload(<<"h", "e", "l", "l", "o">>)) }

\* single-part messages beyond the leaf parts
SingleExtras ==
    { Leaf("text/plain", NoHeader, "utf-8", Payload(<<"c", "a", "f", "xFF">>)),
      Leaf("text/plain", NoHeader, "latin-1", Payload(<<"c", "a", "f", "xFF">>)),
      Leaf("text/html", NoHeader, "bogus-x", Payload(<<"<", "p", ">", "x", "<", "/", "p", ">">>)),
      Leaf("application/pdf", NoHeader, "", Payload(<<"%", "P", "D", "F">>)),
      Leaf("text/html", Header(<<"a", "t", "t", "a", "c", "h", "m", "e", "n", "t", ";", " ", "f", "i", "l", "e", "n", "a", "m", "e", "=", "\"", "p", ".", "h", "t", "m", "l", "\"">>), "", Payload(<<"<", "p", ">", "x", "<", "/", "p", ">">>)) }

PartLists == UNION {[1..n -> LeafParts] : n \in 0..MaxParts}

NestedMsgs ==
    { Multi("multipart/mixed", <<Multi("multipart/alternative", <<a, b>>), c>>) :
        a \in LeafParts, b \in {HtmlPart(<<"<", "p", ">", "x", "<", "/", "p", ">">>), PlainPart(<<"h", "i">>)},
        c \in {PdfAttachment, PlainPart(<<" ", "a", " ", "\n">>)} }

StructuredMsgs ==
    LeafParts \cup SingleExtras \cup NestedMsgs
    \cup {Multi("multipart/mixed", ps) : ps \in PartLists}

HtmlAlphabet == {"<", ">", " ", "\n", "a"}

HtmlSamples ==
    { <<"<", "h", "e", "a", "d", ">", "<", "t", "i", "t", "l", "e", ">", "T", "<", "/", "t", "i", "t", "l", "e", ">", "<", "/", "h", "e", "a", "d", ">", "<", "b", "o", "d", "y", ">", "H", "i", " ", " ", " ", "u", "<", "/", "b", "o", "d", "y", ">">>,
      <<"<", "p", ">", "h", "i", " ", " ", " ", "t", "h", "e", "r", "e", "<", "/", "p", ">">>,
      <<"<", "s", "t", "y", "l", "e", ">", "p", "{", "}", "<", "/", "s", "t", "y", "l", "e", ">", "<", "p", ">", "x", "<", "/", "p", ">">>,
      <<"<", "S", "T", "Y", "L", "E", " ", "t", "y", "p", "e", "=", "x", ">", "p", "{", "}", "<", "/", "S", "T", "Y", "L", "E", ">", "<", "b", "o", "d", "y", ">", "x", "<", "/", "b", "o", "d", "y", ">">>,
      <<"<", "S", "C", "R", "I", "P", "T", " ", "t", "y", "p", "e", "=", "x", ">", "a", "<", "b", "<", "/", "S", "C", "R", "I", "P", "T", ">", "o", "k">>,
      <<"a", "<", ">", "b">> }

HtmlStrings == HtmlSamples \cup UNION {[1..n -> HtmlAlphabet] : n \in 0..MaxHtmlLen}

\* messages whose only part is one HTML part
HtmlOnlyMsgs ==
    {HtmlPart(h) : h \in HtmlStrings}
    \cup {Multi("multipart/alternative", <<HtmlPart(h)>>) : h \in HtmlStrings}

BodyInputs == StructuredMsgs \cup HtmlOnlyMsgs

InitBody ==
    /\ WalkerIdle
    /\ fn = "none"
    /\ arg \in BodyInputs
    /\ ret = <<>>

CallGetEmailBody ==
    /\ fn = "none"
    /\ fn' = "get_email_body"
    /\ ret' = get_email_body(arg)
    /\ UNCHANGED <<walker_vars, arg>>

CallBaseGetEmailBody ==
    /\ fn = "none"
    /\ fn' = "base_get_email_body"
    /\ ret' = base_get_email_body(arg)
    /\ UNCHANGED <<walker_vars, arg>>

NextBody == CallGetEmailBody \/ CallBaseGetEmailBody

SpecBody == InitBody /\ [][NextBody]_vars

(***************************************************************************)
(* is_social_media_email applied to generated From headers                 *)
(***************************************************************************)
MaxMailboxes == 2   \* mailboxes in a generated From header

Mailboxes ==
    { <<"j", "a", "n", "e", "@", "e", "x", "a", "m", "p", "l", "e", ".", "c", "o", "m">>,
      <<"n", "o", "t", "i", "f", "i", "c", "a", "t", "i", "o", "n", "s", "@", "f", "a", "c", "e", "b", "o", "o", "k", "m", "a", "i", "l", ".", "c", "o", "m">>,
      <<"J", "a", "n", "e", " ", "D", "o", "e", " ", "<", "j", "a", "n", "e", "@", "e", "x", "a", "m", "p", "l", "e", ".", "c", "o", "m", ">">>,
      <<"F", "a", "c", "e", "b", "o", "o", "k", " ", "<", "j", "a", "n", "e", "@", "e", "x", "a", "m", "p", "l", "e", ".", "c", "o", "m", ">">>,
      <<"L", "i", "n", "k", "e", "d", "I", "n", " ", "J", "o", "b", " ", "A", "l", "e", "r", "t", "s", " ", "<", "u", "p", "d", "a", "t", "e", "s", "@", "e", "x", "a", "m", "p", "l", "e", ".", "n", "e", "t", ">">>,
      <<"B", "o", "b", " ", "<", "b", "o", "b", "@", "X", ".", "C", "O", "M", ">">>,
      <<"A", "m", "a", "z", "o", "n", " ", "I", "n", "d", "i", "a">>,
      <<"U", "n", "k", "n", "o", "w", "n", " ", "S", "e", "n", "d", "e", "r">>,
      <<"T", "e", "a", "m", " ", "<", "N", "o", "R", "e", "p", "l", "y", "@", "s", "h", "o", "p", ".", "e", "x", "a", "m", "p", "l", "e", ">">>,
      <<"B", "o", "b", " ", "S", "m", "i", "t", "h", " ", "<", ">">> }

\* ", ".join(boxes)
RECURSIVE JoinBoxes(_)
JoinBoxes(boxes) ==
    IF boxes = <<>> THEN <<>>
    ELSE IF Len(boxes) = 1 THEN boxes[1]
    ELSE boxes[1] \o <<",", " ">> \o JoinBoxes(Tail(boxes))

FromHeaders ==
    {JoinBoxes(bs) : bs \in UNION {[1..n -> Mailboxes] : n \in 0..MaxMailboxes}}

InitSender ==
    /\ WalkerIdle
    /\ fn = "none"
    /\ arg \in FromHeaders
    /\ ret = <<>>

CallIsSocialMediaEmail ==
    /\ fn = "none"
    /\ fn' = "is_social_media_email"
    /\ ret' = is_social_media_email(arg)
    /\ UNCHANGED <<walker_vars, arg>>

NextSender == CallIsSocialMediaEmail

SpecSender == InitSender /\ [][NextSender]_vars

(***************************************************************************)
(* File names derived from generated Subject and Message-ID headers        *)
(***************************************************************************)
MaxIdLen == 2       \* characters of a generated Message-ID
MaxSubjectLen == 2  \* characters of a generated Subject

Rep(c, n) == [k \in 1..n |-> c]

IdAlphabet == {"<", ">", "@", "a", "/", ":", "$"}

IdSamples ==
    { <<"<", "m", "1", "@", "e", "x", "a", "m", "p", "l", "e", ".", "c", "o", "m", ">">>,
      <<"m", "1", "_", "a", "t", "_", "e", "x", "a", "m", "p", "l", "e", ".", "c", "o", "m">>,
      <<"<", "a", "$", "b", "+", "c", "=", "d", "@", "m", "a", "i", "l", ".", "e", "x", "a", "m", "p", "l", "e", ".", "c", "o", "m", ">">>,
      <<"<", "a", "@", "b", ">", "x">>,
      Rep("a", 70) \o <<"b">>,
      Rep("a", 70) \o <<"c">> }

\* Message-ID headers that are present and not empty
MessageIds == UNION {[1..n -> IdAlphabet] : n \in 1..MaxIdLen} \cup IdSamples

SubjectAlphabet == {"a", "/", "?", " "}

\* str(subject); the third is what "=?utf-8?q?Re=3A_a=0Ab?=" decodes to
SubjectSamples ==
    { <<"L", "u", "n", "c", "h", "?">>,
      Rep("a", 39) \o <<"/", ":", "b", "/", "c">>,
      <<"R", "e", ":", " ", "a", "\n", "b">> }

\* the parser drops white space in front of a header value
Subjects ==
    {s \in UNION {[1..n -> SubjectAlphabet] : n \in 0..MaxSubjectLen} :
        s = <<>> \/ s[1] # " "}
    \cup SubjectSamples

\* the headers and the body a file name is made of; an empty message_id
\* stands for a message without the header
NamingInputs ==
    [date : {<<>>, <<"W", "e", "d", ",", " ", "0", "1", " ", "J", "a", "n", " ", "2", "0", "2", "0", " ", "1", "0", ":", "0", "0", ":", "0", "0", " ", "+", "0", "0", "0", "0">>},
     subject : Subjects,
     message_id : MessageIds \cup {<<>>},
     body : {<<"b", "o", "d", "y">>}]

NamedMessage(in) ==
    Message([Subject |-> in.subject]
            @@ (IF in.date # <<>> THEN [Date |-> in.date] ELSE <<>>)
            @@ (IF in.message_id # <<>> THEN ("Message-ID" :> in.message_id) ELSE <<>>),
            PlainPart(in.body))

\* unique_id_part for a message with this Message-ID header, lines 200 and 218
IdentifierOf(raw) ==
    LET message_id == parse_message_id(raw)
    IN  IF message_id.raised THEN [raised |-> TRUE, value |-> <<>>]
        ELSE [raised |-> FALSE, value |-> UniqueIdPart(message_id.value, <<>>, <<>>)]

\* lines 189, 200 and 216-221
NamingOf(in) ==
    LET message_id == parse_message_id(in.message_id)
    IN  IF message_id.raised
        THEN [raised |-> TRUE, subject_part |-> <<>>, unique_id_part |-> <<>>,
              filename |-> <<>>]
        ELSE [raised |-> FALSE,
              subject_part |-> clean_filename_component(in.subject, 40),
              unique_id_part |-> UniqueIdPart(message_id.value, in.subject, in.body),
              filename |-> Filename(NamedMessage(in), in.body)]

IdPairs == [ids : MessageIds \X MessageIds]

IdentInputs == IdPairs \cup NamingInputs

InitIdent ==
    /\ WalkerIdle
    /\ fn = "none"
    /\ arg \in IdentInputs
    /\ ret = <<>>

\* the identifier fragments of two messages that carry a Message-ID
CallUniqueIdPart ==
    /\ fn = "none"
    /\ "ids" \in DOMAIN arg
    /\ fn' = "unique_id_part"
    /\ ret' = <<IdentifierOf(arg.ids[1]), IdentifierOf(arg.ids[2])>>
    /\ UNCHANGED <<walker_vars, arg>>

\* the file name of one message
CallFilename ==
    /\ fn = "none"
    /\ "subject" \in DOMAIN arg
    /\ fn' = "filename"
    /\ ret' = NamingOf(arg)
    /\ UNCHANGED <<walker_vars, arg>>

NextIdent == CallUniqueIdPart \/ CallFilename

SpecIdent == InitIdent /\ [][NextIdent]_vars

(***************************************************************************)
(* Both converters applied to the same message                             *)
(***************************************************************************)
\* header sets of the generated messages: a personal sender with and
\* without a Message-ID, and a sender the classifier takes for noise
VariantHeaders ==
    { [From |-> <<"J", "a", "n", "e", " ", "D", "o", "e", " ", "<", "j", "a", "n", "e", "@", "e", "x", "a", "m", "p", "l", "e", ".", "c", "o", "m", ">">>, To |-> <<"m", "e", "@", "e", "x", "a", "m", "p", "l", "e", ".", "c", "o", "m">>,
       Subject |-> <<"L", "u", "n", "c", "h", "?">>] @@ ("Message-ID" :> <<"<", "m", "1", "@", "e", "x", "a", "m", "p", "l", "e", ".", "c", "o", "m", ">">>),
      [From |-> <<"J", "a", "n", "e", " ", "D", "o", "e", " ", "<", "j", "a", "n", "e", "@", "e", "x", "a", "m", "p", "l", "e", ".", "c", "o", "m", ">">>, To |-> <<"m", "e", "@", "e", "x", "a", "m", "p", "l", "e", ".", "c", "o", "m">>,
       Subject |-> <<"L", "u", "n", "c", "h", "?">>],
      [From |-> <<"L", "i", "n", "k", "e", "d", "I", "n", " ", "<", "n", "e", "w", "s", "@", "l", "i", "n", "k", "e", "d", "i", "n", ".", "c", "o", "m", ">">>, To |-> <<"m", "e", "@", "e", "x", "a", "m", "p", "l", "e", ".", "c", "o", "m">>,
       Subject |-> <<"N", "e", "w", "s">>] @@ ("Message-ID" :> <<"<", "n", "1", "@", "l", "i", "n", "k", "e", "d", "i", "n", ".", "c", "o", "m", ">">>) }

VariantInputs == {Message(h, p) : h \in VariantHeaders, p \in BodyInputs}

InitVariants ==
    /\ WalkerIdle
    /\ fn = "none"
    /\ arg \in VariantInputs
    /\ ret = <<>>

\* the loop body of each converter handles the message; the writes succeed
CallBothVariants ==
    /\ fn = "none"
    /\ fn' = "process_message"
    /\ ret' = [filter |-> LoopBody(arg, TRUE, "ok"),
               base |-> BaseLoopBody(arg, "ok"),
               filter_body |-> get_email_body(arg),
               base_body |-> base_get_email_body(arg)]
    /\ UNCHANGED <<walker_vars, arg>>

NextVariants == CallBothVariants

SpecVariants == InitVariants /\ [][NextVariants]_vars

(***************************************************************************)
(* The conversation-logging handler, src/codes/Lambda-to-log-conversation.py *)
(* A JSON value is [type, str]: a string with its text, or something else. *)
(* "uD800" stands for a lone surrogate, which json.loads accepts and        *)
(* str.encode('utf-8') rejects.                                             *)
(***************************************************************************)
MaxProps == 3       \* properties in a generated request

StrValue(s) == [type |-> "str", str |-> s]

NonStrValue == [type |-> "number", str |-> <<>>]

\* an element of the properties list that is a dict
Property(name, value) == [dict |-> TRUE, name |-> name, value |-> value]

\* an element of the properties list that is not a dict: prop.get raises
NotADict == [dict |-> FALSE, name |-> "", value |-> NonStrValue]

LOGGING_S3_BASE_PREFIX == <<"c", "o", "n", "v", "e", "r", "s", "a", "t", "i", "o", "n", "-", "l", "o", "g", "s">>

\* datetime.now().strftime("%Y%m%d") and ("%Y%m%d_%H%M%S_%f") at the call
Today == <<"2", "0", "2", "0", "0", "1", "0", "1">>

timestamp_for_file == <<"2", "0", "2", "0", "0", "1", "0", "1", "_", "1", "0", "0", "0", "0", "0", "_", "0", "0", "0", "0", "0", "1">>

S3PathChars ==
    {UpperLetters[k] : k \in 1..Len(UpperLetters)}
    \cup {LowerLetters[k] : k \in 1..Len(LowerLetters)}
    \cup {"0", "1", "2", "3", "4", "5", "6", "7", "8", "9", "_", ".", "-"}

sanitize_for_s3_path(text, max_length) ==
    IF text = <<>> THEN <<"u", "n", "k", "n", "o", "w", "n">>
    ELSE Prefix([k \in 1..Len(text) |-> IF text[k] \in S3PathChars THEN text[k] ELSE "_"],
                max_length)

\* ParseProperty taking a textToLog value of any type as the text
ParseProperty_AnyText(prop, st) ==
    IF ~prop.dict THEN [st EXCEPT !.raised = TRUE]
    ELSE IF prop.name = "textToLog"
    THEN [st EXCEPT !.text_to_log = IF prop.value.type = "str" THEN prop.value.str
                                    ELSE <<"5">>]
    ELSE IF prop.name = "conversationId"
    THEN IF prop.value.type = "str" /\ Strip(prop.value.str) # <<>>
         THEN [st EXCEPT !.conversation_id = Strip(prop.value.str)] ELSE st
    ELSE IF prop.name = "logType"
    THEN IF prop.value.type = "str" /\ Strip(prop.value.str) # <<>>
         THEN [st EXCEPT !.log_type = Strip(prop.value.str)] ELSE st
    ELSE st

\* one iteration of "for prop in properties", lines 44-56
ParseProperty(prop, st) ==
    IF ~prop.dict THEN [st EXCEPT !.raised = TRUE]
    ELSE IF prop.name = "textToLog"
    THEN IF prop.value.type = "str" THEN [st EXCEPT !.text_to_log = prop.value.str] ELSE st
    ELSE IF prop.name = "conversationId"
    THEN IF prop.value.type = "str" /\ Strip(prop.value.str) # <<>>
         THEN [st EXCEPT !.conversation_id = Strip(prop.value.str)] ELSE st
    ELSE IF prop.name = "logType"
    THEN IF prop.value.type = "str" /\ Strip(prop.value.str) # <<>>
         THEN [st EXCEPT !.log_type = Strip(prop.value.str)] ELSE st
    ELSE st

RECURSIVE ParseProperties(_, _, _)
ParseProperties(properties, k, st) ==
    IF k > Len(properties) \/ st.raised THEN st
    ELSE ParseProperties(properties, k + 1, ParseProperty(properties[k], st))

\* lines 32-64: the locals after the try block; raised when event.get(...)
\* chain or the loop raises
ParseEvent(event) ==
    LET st0 == [text_to_log |-> <<>>,
                conversation_id |-> <<"u", "n", "k", "n", "o", "w", "n", "_", "c", "o", "n", "v", "e", "r", "s", "a", "t", "i", "o", "n", "_">> \o Today,
                log_type |-> <<"u", "n", "k", "n", "o", "w", "n", "_", "l", "o", "g", "_", "t", "y", "p", "e">>,
                raised |-> FALSE]
    IN  IF event.requestBody = "not_a_dict" THEN [st0 EXCEPT !.raised = TRUE]
        ELSE IF event.requestBody = "absent" THEN st0
        ELSE ParseProperties(event.properties, 1, st0)

\* action_group_name of format_agent_response, lines 114-118
ActionGroupName(event) ==
    IF event.actionGroup = "absent" THEN StrValue(<<"U", "n", "k", "n", "o", "w", "n", "A", "c", "t", "i", "o", "n", "G", "r", "o", "u", "p", "_", "L", "o", "g">>)
    ELSE IF event.actionGroup = "dict_with_name" THEN StrValue(<<"L", "o", "g", "A", "c", "t", "i", "o", "n", "s">>)
    ELSE IF event.actionGroup = "dict_without_name" THEN [type |-> "dict", str |-> <<>>]
    ELSE StrValue(<<"L", "o", "g", "A", "c", "t", "i", "o", "n", "s">>)

\* lines 108-137; body holds response_data, which the code passes through json.dumps
format_agent_response(event_payload, http_status_code, response_data) ==
    [messageVersion |-> "1.0",
     response |-> [actionGroup |-> ActionGroupName(event_payload),
                   apiPath |-> IF event_payload.routed THEN <<"/", "l", "o", "g">>
                               ELSE <<"/", "l", "o", "g", "C", "o", "n", "v", "e", "r", "s", "a", "t", "i", "o", "n", "T", "u", "r", "n">>,
                   httpMethod |-> IF event_payload.routed THEN "PUT" ELSE "POST",
                   httpStatusCode |-> http_status_code,
                   responseBody |-> ("application/json" :> [body |-> response_data])],
     sessionAttributes |-> IF event_payload.routed THEN "session" ELSE "{}",
     promptSessionAttributes |-> IF event_payload.routed THEN "prompt" ELSE "{}"]

ErrorData(text) == [error |-> text]

\* text_to_log.encode('utf-8') raises on a lone surrogate
EncodeRaises(text) == \E k \in 1..Len(text) : text[k] = "uD800"

\* what one call of lambda_handler returns and the put_object call it makes;
\* s3_ok: put_object succeeds
Handled(response, puts) == [response |-> response, puts |-> puts]

lambda_handler(event, bucket, s3_ok) ==
    LET st == ParseEvent(event)
    IN  IF st.raised
        THEN Handled(format_agent_response(event, 400, ErrorData("Error parsing input parameters")), <<>>)
        ELSE IF st.text_to_log = <<>>
        THEN Handled(format_agent_response(event, 400, ErrorData("No text provided to log.")), <<>>)
        ELSE IF st.log_type \notin {<<"u", "s", "e", "r", "_", "q", "u", "e", "s", "t", "i", "o", "n">>, <<"a", "g", "e", "n", "t", "_", "r", "e", "s", "p", "o", "n", "s", "e">>}
        THEN Handled(format_agent_response(event, 400,
                 ErrorData("logType must be 'user_question' or 'agent_response'.")), <<>>)
        ELSE IF bucket = <<>>
        THEN Handled(format_agent_response(event, 500,
                 ErrorData("Lambda configuration error: Target S3 bucket for logging not set.")), <<>>)
        ELSE LET s3_key == LOGGING_S3_BASE_PREFIX \o <<"/">>
                           \o sanitize_for_s3_path(st.conversation_id, 50) \o <<"/">>
                           \o sanitize_for_s3_path(st.log_type, 50) \o <<"_">>
                           \o timestamp_for_file \o <<".", "t", "x", "t">>
             IN  IF EncodeRaises(st.text_to_log) \/ ~s3_ok
                 THEN Handled(format_agent_response(event, 500,
                          ErrorData("Internal server error during S3 save")), <<>>)
                 ELSE Handled(format_agent_response(event, 200,
                          [s3LogPath |-> <<"s", "3", ":", "/", "/">> \o bucket \o <<"/">> \o s3_key,
                           loggedConversationId |-> st.conversation_id,
                           loggedLogType |-> st.log_type]),
                          <<[Bucket |-> bucket, Key |-> s3_key,
                             Body |-> st.text_to_log, ContentType |-> "text/plain"]>>)

\* the properties generated requests are built from
LogProperties ==
    { Property("textToLog", StrValue(<<"h", "i">>)),
      Property("textToLog", StrValue(<<>>)),
      Property("textToLog", StrValue(<<"a", "uD800">>)),
      Property("textToLog", NonStrValue),
      Property("logType", StrValue(<<"u", "s", "e", "r", "_", "q", "u", "e", "s", "t", "i", "o", "n">>)),
      Property("logType", StrValue(<<" ", "a", "g", "e", "n", "t", "_", "r", "e", "s", "p", "o", "n", "s", "e", "\n">>)),
      Property("logType", StrValue(<<"n", "o", "t", "e">>)),
      Property("conversationId", StrValue(<<" ", "s", " ", "1", "/", "2", " ">>)),
      NotADict }

PropertyLists == UNION {[1..n -> LogProperties] : n \in 0..MaxProps}

\* requestBody: "json" (with the properties), "absent" or "not_a_dict";
\* routed: the event carries apiPath, httpMethod and the session attributes
LogEvents ==
    [requestBody : {"json"}, properties : PropertyLists,
     actionGroup : {"absent", "name", "dict_with_name", "dict_without_name"},
     routed : BOOLEAN]
    \cup [requestBody : {"absent", "not_a_dict"}, properties : {<<>>},
          actionGroup : {"absent", "name"}, routed : BOOLEAN]

InitLog ==
    /\ filtering = FALSE
    /\ archive_kind = "file"
    /\ archive = <<>>
    /\ pc = "idle"
    /\ outcomes = <<>>
    /\ processed_count = 0
    /\ skipped_no_body_count = 0
    /\ skipped_social_count = 0
    /\ error_count = 0
    /\ skipped_count = 0
    /\ outdir = <<>>
    /\ log = <<>>
    /\ history = <<>>
    /\ LOGGING_S3_BUCKET_NAME \in {<<>>, <<"l", "o", "g", "s">>}
    /\ s3_objects = <<>>
    /\ fn = "none"
    /\ arg \in LogEvents
    /\ ret = <<>>

\* one invocation of the handler; S3 accepts the object or put_object raises
CallLambdaHandler ==
    /\ fn = "none"
    /\ fn' = "lambda_handler"
    /\ \E s3_ok \in BOOLEAN :
        \E r \in {lambda_handler(arg, LOGGING_S3_BUCKET_NAME, s3_ok)} :
            /\ ret' = r.response
            /\ s3_objects' = s3_objects \o r.puts
    /\ UNCHANGED <<filtering, archive_kind, archive, pc, outcomes, processed_count,
                   skipped_no_body_count, skipped_social_count, error_count,
                   skipped_count, outdir, log, history, arg, LOGGING_S3_BUCKET_NAME>>

NextLog == CallLambdaHandler

SpecLog == InitLog /\ [][NextLog]_vars

(***************************************************************************)
(* Properties of process_mbox                                              *)
(***************************************************************************)
\* what the two extractors and the classifier give for each catalogue message
BodyOf == [n \in DOMAIN Catalogue |-> get_email_body(Catalogue[n])]

BaseBodyOf == [n \in DOMAIN Catalogue |-> base_get_email_body(Catalogue[n])]

NoiseOf ==
    [n \in DOMAIN Catalogue |->
        is_social_media_email(Get(Catalogue[n], "From", <<"U", "n", "k", "n", "o", "w", "n", " ", "S", "e", "n", "d", "e", "r">>))]

FilterFilenameOf == [n \in DOMAIN Catalogue |-> Filename(Catalogue[n], BodyOf[n].body)]

BaseFilenameOf == [n \in DOMAIN Catalogue |-> Filename(Catalogue[n], BaseBodyOf[n].body)]

\* of the variant that runs
FilenameOf == IF filtering THEN FilterFilenameOf ELSE BaseFilenameOf

ExtractedBodyOf == IF filtering THEN BodyOf ELSE BaseBodyOf

Counters ==
    <<processed_count, skipped_no_body_count, skipped_social_count, error_count>>

CounterSum ==
    processed_count + skipped_no_body_count + skipped_social_count + error_count

\* number of handled messages whose outcome is in T
CountOutcomes(T) == Cardinality({k \in 1..Len(outcomes) : outcomes[k] \in T})

ErrorOutcomes == {"write_error", "header_error", "body_error"}

\* C1: in the filtering variant, handling one message raises exactly one of
\* the four counters by exactly 1 and leaves the other three alone, the
\* counters change at no other time and never decrease, and after k handled
\* messages they sum to k.
C1_OneUpdatePerMessage ==
    /\ [][(filtering /\ outcomes' # outcomes) =>
            /\ Len(outcomes') = Len(outcomes) + 1
            /\ Cardinality({c \in 1..4 : Counters'[c] = Counters[c] + 1}) = 1
            /\ Cardinality({c \in 1..4 : Counters'[c] = Counters[c]}) = 3]_vars
    /\ [][outcomes' = outcomes => Counters' = Counters]_vars
    /\ [][\A c \in 1..4 : Counters'[c] >= Counters[c]]_vars
    /\ [](filtering => CounterSum = Len(outcomes))

\* three messages handled by the filtering variant, three different counters raised
C1_Witness ==
    /\ filtering
    /\ Len(outcomes) = 3
    /\ processed_count = 1
    /\ skipped_no_body_count = 1
    /\ error_count = 1

\* C2: once the archive is open, a run ends only after every message was
\* handled, and then the final statistics have been logged exactly once; they
\* are not logged earlier.
C2_AllMessagesThenSummary ==
    /\ pc \in {"done", "crashed"} =>
          Len(outcomes) = Len(archive) /\ log = <<"complete">>
    /\ pc = "loop" => log = <<>>

\* the outcome the claimed decision order gives a message
ClaimedOutcome(n) ==
    IF NoiseOf[n] THEN "skipped_social"
    ELSE IF BodyOf[n].body = <<>> /\ ~BodyOf[n].raised THEN "skipped_no_body"
    ELSE "processed"

ExampleArchive == <<"Personal", "Newsletter", "AttachmentOnly">>

PossibleOutcomes(n) ==
    IF FromRaisesOf[n] THEN {"header_error"}
    ELSE IF NoiseOf[n] THEN {"skipped_social"}
    ELSE IF BodyOf[n].raised THEN {"body_error"}
    ELSE IF BodyOf[n].body = <<>> THEN {"skipped_no_body"}
    ELSE IF parse_message_id(Get(Catalogue[n], "Message-ID", <<>>)).raised THEN {"header_error"}
    ELSE {"processed", "write_error"}

EmptyBody(n) ==
    IF filtering THEN ~BodyOf[n].raised /\ BodyOf[n].body = <<>>
    ELSE ~BaseBodyOf[n].raised /\ BaseBodyOf[n].body = <<>>

Separator == <<"-", "-", "-", " ", "E", "m", "a", "i", "l", " ", "C", "o", "n", "t", "e", "n", "t", " ", "-", "-", "-", "\n">>

EndsWith(s, suffix) ==
    Len(s) >= Len(suffix) /\ SubSeq(s, Len(s) - Len(suffix) + 1, Len(s)) = suffix

\* C4: in both variants, handling a message whose extracted body is empty
\* (also when it was whitespace only before trimming) leaves the output
\* directory unchanged, and no file in it is a document with an empty body.
C4_EmptyBodyNotWritten ==
    /\ [][(outcomes' # outcomes /\ EmptyBody(NextMsg)) => outdir' = outdir]_vars
    /\ [](\A f \in DOMAIN outdir : ~EndsWith(outdir[f], Separator))

\* the base variant wrote the personal email and dropped the whitespace-only one
C4_Witness ==
    /\ ~filtering
    /\ pc = "done"
    /\ archive = <<"Personal", "EmptyFromBlank">>
    /\ outcomes = <<"processed", "skipped_no_body">>
    /\ Cardinality(DOMAIN outdir) = 1

\* the message has no From header, or an empty one
NoSender(n) ==
    "From" \notin DOMAIN Catalogue[n].headers \/ Catalogue[n].headers["From"] = <<>>

\* C10: in the filtering variant a message with a missing or empty From header
\* is classified as not noise: it is never counted as skipped_social and its
\* handling reaches body extraction.
C10_MissingFromFailsOpen ==
    filtering =>
        /\ \A k \in 1..Len(outcomes) :
              NoSender(archive[k]) =>
                  /\ ~NoiseOf[archive[k]]
                  /\ outcomes[k] \in {"skipped_no_body", "processed", "write_error", "body_error"}
        /\ skipped_social_count =
              Cardinality({k \in 1..Len(outcomes) :
                              ~NoSender(archive[k]) /\ outcomes[k] = "skipped_social"})

\* a message without From was written, one with an empty From went on to extraction
C10_Witness ==
    /\ filtering
    /\ pc = "done"
    /\ archive = <<"NoFromMemo", "EmptyFromBlank">>
    /\ outcomes = <<"processed", "skipped_no_body">>
    /\ skipped_social_count = 0

(***************************************************************************)
(* Properties of get_email_body                                            *)
(***************************************************************************)
Called == fn \in {"get_email_body", "base_get_email_body"}

\* the parts of a message that carry content
Leaves(msg) ==
    LET w == Walk(msg) IN {w[k] : k \in {j \in 1..Len(w) : ~w[j].multi}}

\* the part is marked as an attachment
IsAttachment(part) ==
    part.disp.present /\ Contains(Lower(part.disp.raw), <<"a", "t", "t", "a", "c", "h", "m", "e", "n", "t">>)

\* the decoded contents of the non-empty plain-text parts of a message
PlainContents(msg) ==
    {DecodePart(p).text :
        p \in {q \in Leaves(msg) :
                 /\ q.ctype = "text/plain"
                 /\ ~IsAttachment(q)
                 /\ DecodePart(q).ok
                 /\ DecodePart(q).text # <<>>}}

\* C5: for a message with a non-empty plain-text part, get_email_body returns
\* exactly the content of a plain-text part, wherever that part is and
\* whatever other plain-text and HTML parts there are.
C5_PlainTextReturnedExactly ==
    (Called /\ PlainContents(arg) # {}) =>
        ~ret.raised /\ ret.body \in PlainContents(arg)

\* every content part is a decodable HTML part that is not an attachment
IsHtmlOnly(msg) ==
    /\ Leaves(msg) # {}
    /\ \A p \in Leaves(msg) :
          p.ctype = "text/html" /\ ~p.disp.present /\ DecodePart(p).ok

\* a '<' followed by one or more characters other than '>' and a '>'
HasTag(text) == \E p \in 1..Len(text) : AnyTag(text, p) > 0

HasWhitespaceRun(text) ==
    \E p \in 1..(Len(text) - 1) : text[p] \in WS /\ text[p + 1] \in WS

\* C6: for a message with only an HTML part, get_email_body returns text
\* with no '<...>' tag sequence and no run of two or more whitespace
\* characters.
C6_HtmlOnlyHasNoTagsOrRuns ==
    (Called /\ IsHtmlOnly(arg)) =>
        ~ret.raised /\ ~HasTag(ret.body) /\ ~HasWhitespaceRun(ret.body)

\* the only content of the message is attachment-disposed
AttachmentOnlyContent(msg) ==
    Leaves(msg) # {} /\ \A p \in Leaves(msg) : IsAttachment(p)

\* C7: for a message whose only content is an attachment-disposed part,
\* inside a multipart container or as the single part of the message,
\* get_email_body returns the empty string.
C7_AttachmentOnlyIsEmpty ==
    (Called /\ AttachmentOnlyContent(arg)) => ret = Returned(<<>>)

\* C8: get_email_body never raises; it returns a string for every message.
C8_NeverRaises == Called => ~ret.raised

\* the headers, and without a Message-ID the text, that a file name is made of
SameNamingInputs(m, n) ==
    /\ Get(Catalogue[m], "Date", <<>>) = Get(Catalogue[n], "Date", <<>>)
    /\ Get(Catalogue[m], "Subject", <<"N", "o", " ", "S", "u", "b", "j", "e", "c", "t">>) = Get(Catalogue[n], "Subject", <<"N", "o", " ", "S", "u", "b", "j", "e", "c", "t">>)
    /\ Get(Catalogue[m], "Message-ID", <<>>) = Get(Catalogue[n], "Message-ID", <<>>)
    /\ Get(Catalogue[m], "Message-ID", <<>>) = <<>> =>
           Prefix(ExtractedBodyOf[m].body, 200) = Prefix(ExtractedBodyOf[n].body, 200)

LacksMessageId(n) == Get(Catalogue[n], "Message-ID", <<>>) = <<>>

\* C13: within one run a file written for one message is not overwritten by
\* the write for a later, different message of the archive unless both lack
\* a Message-ID; and after a run without failed writes into a fresh
\* directory the number of files equals the processed counter.
C13_NoOverwriteFilesEqualProcessed ==
    /\ \A i, j \in 1..Len(outcomes) :
           (/\ i < j
            /\ archive[i] # archive[j]
            /\ outcomes[i] = "processed"
            /\ outcomes[j] = "processed"
            /\ FilenameOf[archive[i]] = FilenameOf[archive[j]])
           => (LacksMessageId(archive[i]) /\ LacksMessageId(archive[j]))
    /\ (pc = "done" /\ CountOutcomes({"write_error"}) = 0)
           => Cardinality(DOMAIN outdir) = processed_count

\* the document the specification describes for catalogue message n: the
\* metadata lines in their order, with or without the Cc line, an empty line,
\* the separator line and the whole extracted body
DocumentsFor(n) ==
    LET msg == Catalogue[n]
        line(label, value) == label \o value \o <<"\n">>
        top == line(<<"E", "m", "a", "i", "l", " ", "D", "a", "t", "e", ":", " ">>, DateDisplay(Get(msg, "Date", <<>>)))
               \o line(<<"F", "r", "o", "m", ":", " ">>, Get(msg, "From", <<"U", "n", "k", "n", "o", "w", "n", " ", "S", "e", "n", "d", "e", "r">>))
               \o line(<<"T", "o", ":", " ">>, Get(msg, "To", <<"U", "n", "k", "n", "o", "w", "n", " ", "R", "e", "c", "i", "p", "i", "e", "n", "t">>))
        rest == line(<<"S", "u", "b", "j", "e", "c", "t", ":", " ">>, Get(msg, "Subject", <<"N", "o", " ", "S", "u", "b", "j", "e", "c", "t">>))
                \o <<"\n">> \o Separator \o ExtractedBodyOf[n].body
    IN  {top \o rest, top \o line(<<"C", "c", ":", " ">>, Get(msg, "Cc", <<>>)) \o rest}

\* C14: every file of the output directory is the document of a message the
\* run has handled: metadata lines Email Date, From, To, (Cc), Subject, an
\* empty line, the separator line, then the complete extracted body, with
\* nothing before or after.
C14_FileIsMetadataSeparatorBody ==
    \A f \in DOMAIN outdir :
        \E k \in 1..Len(outcomes) :
            /\ FilenameOf[archive[k]] = f
            /\ outdir[f] \in DocumentsFor(archive[k])

\* the path names no mailbox file that could be read
CannotBeOpened == archive_kind \in {"missing", "directory"}

\* C15: when the archive cannot be opened, process_mbox aborts with a logged
\* error: it handles no message, writes no document, changes no counter and
\* logs no final statistics; and no step creates or modifies the archive.
C15_UnopenableArchiveAborts ==
    /\ [][archive_kind' = archive_kind /\ archive' = archive]_vars
    /\ [][(CannotBeOpened /\ pc = "start")
              => (pc' = "aborted" /\ log' = <<"open_error">>)]_vars
    /\ [](pc = "aborted" => /\ outcomes = <<>>
                            /\ outdir = <<>>
                            /\ CounterSum = 0
                            /\ skipped_count = 0
                            /\ log = <<"open_error">>)

\* the step handles a message whose write fails
WriteFails == outcomes' = Append(outcomes, "write_error")

MetadataLines(doc) ==
    LET lines == Split(doc, "\n")
        blank == {k \in 1..Len(lines) : lines[k] = <<>>}
    IN  IF blank = {} THEN lines ELSE SubSeq(lines, 1, Min(blank) - 1)

\* the metadata block has a Cc line, and it stands between To and Subject
CcLineBetweenToAndSubject(doc) ==
    LET lines == MetadataLines(doc)
    IN  \E k \in 2..(Len(lines) - 1) :
            /\ StartsAt(lines[k], 1, <<"C", "c", ":", " ">>)
            /\ StartsAt(lines[k - 1], 1, <<"T", "o", ":", " ">>)
            /\ StartsAt(lines[k + 1], 1, <<"S", "u", "b", "j", "e", "c", "t", ":", " ">>)

HasCcLine(doc) ==
    \E k \in 1..Len(MetadataLines(doc)) : StartsAt(MetadataLines(doc)[k], 1, <<"C", "c", ":", " ">>)

\* C19: in both variants the document written for a message has a Cc line,
\* between the To line and the Subject line, exactly when the message has a
\* non-empty Cc header.
C19_CcLineIffCcHeader ==
    [][outcomes' = Append(outcomes, "processed") =>
          LET doc == outdir'[FilenameOf[NextMsg]]
          IN  IF Get(Catalogue[NextMsg], "Cc", <<>>) # <<>>
              THEN CcLineBetweenToAndSubject(doc)
              ELSE ~HasCcLine(doc)]_vars

\* the HTML parts of a message in the order of msg.walk()
HtmlPartsInOrder(msg) == SelectSeq(Walk(msg), LAMBDA p : ~p.multi /\ p.ctype = "text/html")

\* a multipart message whose content parts are several decodable HTML parts,
\* none of them an attachment
SeveralHtmlPartsOnly(msg) ==
    /\ msg.multi
    /\ IsHtmlOnly(msg)
    /\ Len(HtmlPartsInOrder(msg)) >= 2

\* C20: for a multipart message without a plain-text part and with several
\* non-attachment HTML parts, get_email_body returns what it returns for the
\* first HTML part alone: no later HTML part replaces it.
C20_FirstHtmlPartWins ==
    (Called /\ SeveralHtmlPartsOnly(arg)) =>
        LET first == Multi("multipart/alternative", <<HtmlPartsInOrder(arg)[1]>>)
        IN  ret = IF fn = "get_email_body" THEN get_email_body(first)
                  ELSE base_get_email_body(first)

\* C21: for a message whose sender is not classified as noise, the base
\* variant and the filtering variant both write it or both skip it, write it
\* under the same file name, and extract the same body text.
C21_VariantsAgreeOnPersonalMail ==
    (fn = "process_message"
     /\ ~is_social_media_email(Get(arg, "From", <<"U", "n", "k", "n", "o", "w", "n", " ", "S", "e", "n", "d", "e", "r">>))) =>
        /\ ret.filter.file.written = ret.base.file.written
        /\ ret.filter.file.name = ret.base.file.name
        /\ ret.filter_body = ret.base_body

(***************************************************************************)
(* Properties of file names                                                *)
(***************************************************************************)
Chars(s) == {s[k] : k \in 1..Len(s)}

\* C12: two messages with different Message-ID headers never get the same
\* identifier fragment (the mapping from Message-ID to fragment is injective).
C12_MessageIdFragmentInjective ==
    (fn = "unique_id_part" /\ ~ret[1].raised /\ ~ret[2].raised
                           /\ arg.ids[1] # arg.ids[2]) =>
        ret[1].value # ret[2].value

Digits == {"0", "1", "2", "3", "4", "5", "6", "7", "8", "9"}

\* alphanumerics, hyphen, underscore and period
IdentifierChars ==
    Chars(UpperLetters) \cup Chars(LowerLetters) \cup Digits \cup {"-", "_", "."}

\* C17: the identifier fragment derived from a Message-ID holds only
\* alphanumerics, hyphen, underscore and period, and is of bounded length.
C17_FragmentHasOnlySafeChars ==
    fn = "unique_id_part" =>
        \A k \in 1..2 :
            ~ret[k].raised =>
                /\ Chars(ret[k].value) \subseteq IdentifierChars
                /\ Len(ret[k].value) <= 70

\* the characters C18 names
ForbiddenInFilenames == {"\\", "/", "*", "?", ":", "\"", "<", ">", "|", "\n", "\r"}

EndsWithTxt(name) ==
    Len(name) > 4 /\ SubSeq(name, Len(name) - 3, Len(name)) = <<".", "t", "x", "t">>

\* C18: every file name holds none of \ / * ? : " < > | and no newline or
\* carriage return, its subject fragment has at most 40 characters and its
\* identifier fragment at most 70, it is date prefix, subject fragment and
\* identifier fragment joined by "_" with the suffix ".txt", and so names a
\* file directly inside the output directory.
C18_FilenameIsSafe ==
    (fn = "filename" /\ ~ret.raised) =>
        /\ Chars(ret.filename) \cap ForbiddenInFilenames = {}
        /\ Len(ret.subject_part) <= 40
        /\ Len(ret.unique_id_part) <= 70
        /\ ret.filename = DatePrefix(arg.date) \o <<"_">> \o ret.subject_part \o <<"_">>
                          \o ret.unique_id_part \o <<".", "t", "x", "t">>
        /\ EndsWithTxt(ret.filename)

\* a subject of more than 40 characters with separators in it and a
\* Message-ID of more than 70 characters have been cut and cleaned
C18_Witness ==
    /\ fn = "filename"
    /\ ~ret.raised
    /\ Len(arg.subject) > 40
    /\ "/" \in Chars(arg.subject)
    /\ Len(arg.message_id) > 70
    /\ Len(ret.subject_part) = 40
    /\ "_" \in Chars(ret.subject_part)
    /\ Len(ret.unique_id_part) = 70

(***************************************************************************)
(* Properties of is_social_media_email                                     *)
(***************************************************************************)
\* some keyword is a substring of the lower-cased display name or address of
\* some mailbox parsed from the header
KeywordInSomeMailbox(header) ==
    LET boxes == getaddresses(header)
    IN  \E m \in 1..Len(boxes) :
            \E k \in 1..Len(SOCIAL_MEDIA_KEYWORDS_LOWER) :
                \/ Contains(Lower(boxes[m].realname), SOCIAL_MEDIA_KEYWORDS_LOWER[k])
                \/ Contains(Lower(boxes[m].email_address), SOCIAL_MEDIA_KEYWORDS_LOWER[k])

\* C9: is_social_media_email(from_header) is true exactly when a keyword of
\* the lower-cased list is a substring of the lower-cased display name or
\* address of a mailbox of the header; notifications@facebookmail.com is
\* noise and Jane Doe <jane@example.com> is not.
C9_NoiseIffKeywordInMailbox ==
    fn = "is_social_media_email" =>
        /\ ret <=> KeywordInSomeMailbox(arg)
        /\ arg = <<"n", "o", "t", "i", "f", "i", "c", "a", "t", "i", "o", "n", "s", "@", "f", "a", "c", "e", "b", "o", "o", "k", "m", "a", "i", "l", ".", "c", "o", "m">> => ret
        /\ arg = <<"J", "a", "n", "e", " ", "D", "o", "e", " ", "<", "j", "a", "n", "e", "@", "e", "x", "a", "m", "p", "l", "e", ".", "c", "o", "m", ">">> => ~ret

\* a header whose display name alone, in mixed case, holds a keyword is noise
C9_Witness ==
    /\ fn = "is_social_media_email"
    /\ arg = <<"J", "a", "n", "e", " ", "D", "o", "e", " ", "<", "j", "a", "n", "e", "@", "e", "x", "a", "m", "p", "l", "e", ".", "c", "o", "m", ">", ",", " ", "L", "i", "n", "k", "e", "d", "I", "n", " ", "J", "o", "b", " ", "A", "l", "e", "r", "t", "s", " ", "<", "u", "p", "d", "a", "t", "e", "s", "@", "e", "x", "a", "m", "p", "l", "e", ".", "n", "e", "t", ">">>
    /\ ret = TRUE


(***************************************************************************)
(* Properties of the conversation-logging handler                          *)
(***************************************************************************)
\* the request has a property of this name whose value is a string in S
HasStringProperty(event, name, S) ==
    \E k \in 1..Len(event.properties) :
        /\ event.properties[k].dict
        /\ event.properties[k].name = name
        /\ event.properties[k].value.type = "str"
        /\ event.properties[k].value.str \in S

HasText(event) ==
    \E k \in 1..Len(event.properties) :
        /\ event.properties[k].dict
        /\ event.properties[k].name = "textToLog"
        /\ event.properties[k].value.type = "str"
        /\ event.properties[k].value.str # <<>>

LogTypes == {<<"u", "s", "e", "r", "_", "q", "u", "e", "s", "t", "i", "o", "n">>, <<"a", "g", "e", "n", "t", "_", "r", "e", "s", "p", "o", "n", "s", "e">>}

\* the log types as a request may write them: with white space around them
PaddedLogTypes ==
    {l \in {p.value.str : p \in LogProperties} : Strip(l) \in LogTypes}

StatusOf(response) == response.response.httpStatusCode

\* the fixed response envelope
IsEnvelope(response) ==
    /\ DOMAIN response =
           {"messageVersion", "response", "sessionAttributes", "promptSessionAttributes"}
    /\ response.messageVersion = "1.0"
    /\ DOMAIN response.response =
           {"actionGroup", "apiPath", "httpMethod", "httpStatusCode", "responseBody"}
    /\ DOMAIN response.response.responseBody = {"application/json"}
    /\ DOMAIN response.response.responseBody["application/json"] = {"body"}

\* the parts of C22 that do not depend on how logType is compared
StoreAndStatusAgree ==
    /\ IsEnvelope(ret)
    /\ StatusOf(ret) \in {200, 400, 500}
    /\ s3_objects # <<>> => (HasText(arg) /\ LOGGING_S3_BUCKET_NAME # <<>>)
    /\ StatusOf(ret) = 200 <=> Len(s3_objects) = 1
    /\ ~HasText(arg) => StatusOf(ret) = 400
    /\ LOGGING_S3_BUCKET_NAME = <<>> => StatusOf(ret) \in {400, 500}
    /\ StatusOf(ret) = 500 => s3_objects = <<>>

=============================================================================
